---- MODULE Spec2Model ----
(***************************************************************************)
(* Model of the OMR sheet pipeline of backend/app/omr_processor.py.        *)
(*                                                                         *)
(* The OpenCV / imutils calls are library code.  What they compute from    *)
(* the image bytes is the input of the model: an image is the record of    *)
(* what the library reports about it (does it decode, which contours the   *)
(* edge map has, which contours the binarized sheet has, each with its     *)
(* bounding box and its number of set pixels).                             *)
(*                                                                         *)
(* Python floats are modelled as exact rationals <<num, den>> in lowest    *)
(* terms.  Within the bounds below every quotient the code compares is     *)
(* either equal to the literal it is compared with or differs from it by   *)
(* far more than one ulp, so float and exact comparison agree.             *)
(***************************************************************************)
EXTENDS Integers, Sequences, FiniteSets, TLC

VARIABLES
    image,      \* invocation id -> the image bytes handed to it, as what the
                \* library reports about them
    runs,       \* invocation id -> frame of one process_omr_sheet call
    ps,         \* frame of the calls of calculate_proximity_score
    ms,         \* frame of one multi_scale_bubble_detection call
    app         \* the state of the web application process (main.py): its
                \* clock, its global objects and the requests it has answered

vars == <<image, runs, ps, ms, app>>

-----------------------------------------------------------------------------
(* Bounds *)

MaxFound == 12          \* found_count drawn from 0..MaxFound
MaxExpected == 5        \* expected_count drawn from 0..MaxExpected
MaxDetContours == 3     \* contours of the image handed to the detector
MaxDetExpected == 3     \* expected_count handed to the detector
MaxQuestions == 2       \* num_questions drawn from 0..MaxQuestions
MaxOptions == 2         \* num_options drawn from 0..MaxOptions
MaxThreshold == 2       \* min_pixel_threshold drawn from 0..MaxThreshold
MaxContours == 3        \* contours of the binarized sheet
MaxRowContours == 2     \* contours of the binarized sheet, rows under study
MaxPairContours == 2    \* contours of the binarized sheet, two invocations
MaxSheetContours == 2   \* contours of the edge map
MaxArea == 2            \* cv2.contourArea of a contour of the edge map
MaxElapsed == 1         \* time.time() - start_time, in ms
MaxMixContours == 2     \* contours of each binarized sheet, two unrelated invocations
MaxRequests == 3        \* requests the application answers
requests_per_minute == 1    \* RateLimiter(requests_per_minute=...), 60 in main.py
requests_per_hour == 2      \* RateLimiter(requests_per_hour=...), 1000 in main.py
MaxCalls == 4           \* calls of the methods of the result store
MaxStored == 2          \* results stored
MaxThreads == 2         \* threads that call record_request
MaxRecorded == 3        \* calls of record_request
max_history == 2        \* PerformanceMonitor(max_history=...), 1000 by default
MaxHealthRequests == 11 \* requests recorded before a health check
MaxHealthCalls == 1     \* calls of get_health_status
MaxGridContours == 4    \* contours of the binarized sheet, shapes on a grid
MaxCrowdSmall == 10     \* small shapes of a crowded sheet
MaxCrowdLarge == 2      \* large shapes of a crowded sheet
MaxCrowdExpected == 10  \* expected_count handed to the detector, crowded sheet

-----------------------------------------------------------------------------
(* Arithmetic helpers *)

Abs(n) == IF n < 0 THEN -n ELSE n

RECURSIVE Gcd(_, _)
Gcd(a, b) == IF b = 0 THEN a ELSE Gcd(b, a % b)

\* the float n/d (d > 0), kept in lowest terms so that equal values are
\* equal states
Rat(n, d) == LET g == Gcd(Abs(n), d) IN <<n \div g, d \div g>>

RatAdd(a, b) == Rat(a[1] * b[2] + b[1] * a[2], a[2] * b[2])
RatSub(a, b) == Rat(a[1] * b[2] - b[1] * a[2], a[2] * b[2])
RatLT(a, b) == a[1] * b[2] < b[1] * a[2]
RatLE(a, b) == a[1] * b[2] <= b[1] * a[2]
RatMax(a, b) == IF RatLT(a, b) THEN b ELSE a
RatMin(a, b) == IF RatLT(b, a) THEN b ELSE a

Zero == Rat(0, 1)
One == Rat(1, 1)

-----------------------------------------------------------------------------
(* calculate_proximity_score *)

\* the function with the abs() of the difference dropped
calculate_proximity_score_noabs(found_count, expected_count) ==
    IF expected_count = 0 THEN Zero
    ELSE LET percentage_diff == Rat(found_count - expected_count, expected_count)
             score == RatMax(Zero, RatSub(One, percentage_diff))
             ratio == Rat(found_count, expected_count)
             bonus == IF RatLE(Rat(8, 10), ratio) /\ RatLE(ratio, Rat(12, 10))
                      THEN RatAdd(score, Rat(1, 10))
                      ELSE score
         IN RatMin(One, bonus)

\* the function with the bonus band's lower end made strict
calculate_proximity_score_strictband(found_count, expected_count) ==
    IF expected_count = 0 THEN Zero
    ELSE LET percentage_diff == Rat(Abs(found_count - expected_count), expected_count)
             score == RatMax(Zero, RatSub(One, percentage_diff))
             ratio == Rat(found_count, expected_count)
             bonus == IF RatLT(Rat(8, 10), ratio) /\ RatLE(ratio, Rat(12, 10))
                      THEN RatAdd(score, Rat(1, 10))
                      ELSE score
         IN RatMin(One, bonus)

calculate_proximity_score(found_count, expected_count) ==
    IF expected_count = 0 THEN Zero
    ELSE LET percentage_diff == Rat(Abs(found_count - expected_count), expected_count)
             score == RatMax(Zero, RatSub(One, percentage_diff))
             ratio == Rat(found_count, expected_count)
             bonus == IF RatLE(Rat(8, 10), ratio) /\ RatLE(ratio, Rat(12, 10))
                      THEN RatAdd(score, Rat(1, 10))
                      ELSE score
         IN RatMin(One, bonus)

-----------------------------------------------------------------------------
(* Contours *)

\* a contour of a binary image: its bounding rectangle (x, y, w, h) as
\* cv2.boundingRect reports it and pix, the number of set pixels of the image
\* inside it, as cv2.countNonZero reports it for its mask
Contour(x, y, w, h, pix) == [x |-> x, y |-> y, w |-> w, h |-> h, pix |-> pix]

Range(s) == {s[i] : i \in DOMAIN s}

\* all sequences of at most n elements of S
SeqsUpTo(S, n) == UNION {[1..k -> S] : k \in 0..n}

RECURSIVE FilterSeq(_, _)
\* the list comprehension / append loop: the elements i of s with keep[i],
\* in their order
FilterSeq(s, keep) ==
    IF s = <<>> THEN <<>>
    ELSE LET rest == FilterSeq(Tail(s), [i \in 1..(Len(s) - 1) |-> keep[i + 1]])
         IN IF keep[1] THEN <<Head(s)>> \o rest ELSE rest

-----------------------------------------------------------------------------
(* detect_bubbles_with_threshold; max_size = 0 stands for a falsy max_size *)

detect_bubbles_with_threshold(thresh_image, min_size, max_size, aspect_ratio_range) ==
    LET cnts == thresh_image
        ar(c) == Rat(c.w, c.h)
        size_ok(c) == /\ c.w >= min_size /\ c.h >= min_size
                      /\ (max_size # 0 => c.w <= max_size /\ c.h <= max_size)
        ar_ok(c) == /\ RatLE(aspect_ratio_range[1], ar(c))
                    /\ RatLE(ar(c), aspect_ratio_range[2])
    IN FilterSeq(cnts, [i \in 1..Len(cnts) |-> size_ok(cnts[i]) /\ ar_ok(cnts[i])])

-----------------------------------------------------------------------------
(* multi_scale_bubble_detection *)

size_ranges == << <<4, 12>>, <<6, 15>>, <<8, 18>>, <<10, 22>>,
                  <<12, 25>>, <<15, 30>>, <<18, 35>> >>

aspect_ratio_ranges == << <<Rat(5, 10), Rat(15, 10)>>, <<Rat(7, 10), Rat(13, 10)>>,
                          <<Rat(8, 10), Rat(12, 10)>>, <<Rat(9, 10), Rat(11, 10)>> >>

NumCombos == Len(size_ranges) * Len(aspect_ratio_ranges)

\* the k-th pass of the nested loops: size range outer, aspect ratio inner
ComboSize(k) == size_ranges[((k - 1) \div Len(aspect_ratio_ranges)) + 1]
ComboAr(k) == aspect_ratio_ranges[((k - 1) % Len(aspect_ratio_ranges)) + 1]

\* best_result is None: <<>>; best_result is a dict: <<dict>>
MsStart == [best_result |-> <<>>, best_score |-> Zero]

\* line 224 with >= in place of >
Better_orequal(score, best_score) == RatLE(best_score, score)

\* line 224: score > best_score
Better(score, best_score) == RatLT(best_score, score)

DefaultResult == [bubbles |-> <<>>, count |-> 0, score |-> Zero,
                  min_size |-> 10, max_size |-> 25,
                  aspect_ratio_range |-> <<Rat(5, 10), Rat(15, 10)>>]

\* lines 235-253: the code after the loops
MsFinish(st) == IF st.best_result = <<>> THEN DefaultResult ELSE st.best_result[1]

RECURSIVE MsLoop(_, _, _, _, _)
\* lines 205-233: the passes k..last of the loops, from best_result and
\* best_score as st has them
MsLoop(st, thresh_image, expected_count, k, last) ==
    IF k > last THEN st
    ELSE LET bubbles == detect_bubbles_with_threshold(thresh_image, ComboSize(k)[1],
                                                      ComboSize(k)[2], ComboAr(k))
             score == calculate_proximity_score(Len(bubbles), expected_count)
         IN IF Better(score, st.best_score)
            THEN MsLoop([best_score |-> score,
                         best_result |-> <<[bubbles |-> bubbles,
                                            count |-> Len(bubbles),
                                            score |-> score,
                                            min_size |-> ComboSize(k)[1],
                                            max_size |-> ComboSize(k)[2],
                                            aspect_ratio_range |-> ComboAr(k)]>>],
                        thresh_image, expected_count, k + 1, last)
            ELSE MsLoop(st, thresh_image, expected_count, k + 1, last)

multi_scale_bubble_detection(thresh_image, expected_count) ==
    MsFinish(MsLoop(MsStart, thresh_image, expected_count, 1, NumCombos))

-----------------------------------------------------------------------------
(* Helpers of process_omr_sheet *)

\* sorted(s, key=...): stable, ascending in keys[i]
StableSort(s, keys) ==
    LET n == Len(s)
        rank(i) == Cardinality({j \in 1..n : keys[j] < keys[i]
                                             \/ (keys[j] = keys[i] /\ j < i)}) + 1
    IN [r \in 1..n |-> s[CHOOSE i \in 1..n : rank(i) = r]]

\* line 304 without reverse=True
SortByAreaDesc_ascending(cnts) ==
    StableSort(cnts, [i \in 1..Len(cnts) |-> cnts[i].area])

\* sorted(cnts, key=cv2.contourArea, reverse=True); reverse keeps the order
\* of equal elements
SortByAreaDesc(cnts) == StableSort(cnts, [i \in 1..Len(cnts) |-> -cnts[i].area])

\* imutils contours.sort_contours(cnts, method): by the y of the bounding box
\* for "top-to-bottom", by its x for the default "left-to-right"
sort_contours(cnts, method) ==
    StableSort(cnts, [i \in 1..Len(cnts) |->
                        IF method = "top-to-bottom" THEN cnts[i].y ELSE cnts[i].x])

\* the loop of lines 305-310 over the sorted contours: the first one whose
\* approximation has 4 vertices, None (<<>>) if there is none
RECURSIVE FirstQuad(_)
FirstQuad(cnts) ==
    IF cnts = <<>> THEN <<>>
    ELSE IF Head(cnts).verts = 4 THEN <<Head(cnts)>>
    ELSE FirstQuad(Tail(cnts))

\* int(x) of a non-negative float
Floor(r) == r[1] \div r[2]

MinSide == 1200

\* lines 320-328: the size the warped paper (w, h) is resized to; for the
\* paper sizes of SheetContours the float products are whole numbers, as the
\* exact ones
ResizedPaper(w, h) ==
    LET target_width == IF MinSide > w THEN MinSide ELSE w
        target_height == IF MinSide > h THEN MinSide ELSE h
        scale_x == Rat(target_width, w)
        scale_y == Rat(target_height, h)
        scale == RatMin(scale_x, scale_y)
    IN [new_width |-> Floor(Rat(w * scale[1], scale[2])),
        new_height |-> Floor(Rat(h * scale[1], scale[2])),
        scale |-> scale]

\* the fallback loops of lines 424-429 and 438-443
FallbackFilter(cnts, min_side, ar_low, ar_high) ==
    LET ar(c) == Rat(c.w, c.h)
    IN FilterSeq(cnts, [i \in 1..Len(cnts) |->
                          /\ cnts[i].w >= min_side /\ cnts[i].h >= min_side
                          /\ RatLE(ar_low, ar(cnts[i]))
                          /\ RatLE(ar(cnts[i]), ar_high)])

\* lines 415-449 with the second filter tried whenever the first one finds
\* fewer than expected_bubbles
SelectQuestionCnts_nohalf(detection_result, thresh, expected_bubbles) ==
    IF RatLT(detection_result.score, Rat(3, 10))
    THEN LET first == FallbackFilter(thresh, 4, Rat(5, 10), Rat(15, 10))
         IN IF Len(first) < expected_bubbles
            THEN FallbackFilter(thresh, 3, Rat(3, 10), Rat(20, 10))
            ELSE first
    ELSE detection_result.bubbles

\* lines 415-449: the contours the rows are built from, given what
\* multi_scale_bubble_detection returned
SelectQuestionCnts(detection_result, thresh, expected_bubbles) ==
    IF RatLT(detection_result.score, Rat(3, 10))
    THEN LET first == FallbackFilter(thresh, 4, Rat(5, 10), Rat(15, 10))
         IN IF 2 * Len(first) < expected_bubbles
            THEN FallbackFilter(thresh, 3, Rat(3, 10), Rat(20, 10))
            ELSE first
    ELSE detection_result.bubbles

\* str(n) of a positive integer: its decimal digits
RECURSIVE Str(_)
Str(n) == IF n < 10 THEN <<n>> ELSE Str(n \div 10) \o <<n % 10>>

\* chr(ord('A') + index)
OptionLetters == <<"A", "B", "C", "D", "E", "F", "G", "H">>
Letter(index) == OptionLetters[index + 1]

\* round(r, 3) of a float in [0, 1]: to the nearest thousandth, an exact
\* half to the even one
Round3(r) ==
    LET q == (1000 * r[1]) \div r[2]
        rem2 == 2 * ((1000 * r[1]) % r[2])
        k == IF rem2 > r[2] \/ (rem2 = r[2] /\ q % 2 = 1) THEN q + 1 ELSE q
    IN Rat(k, 1000)

\* the loop of lines 491-500 with >= in place of > at line 498
RECURSIVE MarkLoop_lasttie(_, _, _)
MarkLoop_lasttie(all_pixel_counts, k, best) ==
    IF k > Len(all_pixel_counts) THEN best
    ELSE MarkLoop_lasttie(all_pixel_counts, k + 1,
                          IF all_pixel_counts[k] >= best[1]
                          THEN <<all_pixel_counts[k], k - 1>>
                          ELSE best)

\* the loop of lines 491-500 from option k on: <<bubbled_pixel_count, marked_index>>
RECURSIVE MarkLoop(_, _, _)
MarkLoop(all_pixel_counts, k, best) ==
    IF k > Len(all_pixel_counts) THEN best
    ELSE MarkLoop(all_pixel_counts, k + 1,
                  IF all_pixel_counts[k] > best[1]
                  THEN <<all_pixel_counts[k], k - 1>>
                  ELSE best)

\* lines 503-511 without the upper clamp a quotient of the two top counts has
RowConfidence_topoverdiff(all_pixel_counts) ==
    IF Len(all_pixel_counts) > 1
    THEN LET sorted_counts == StableSort(all_pixel_counts,
                                         [i \in 1..Len(all_pixel_counts) |->
                                             -all_pixel_counts[i]])
         IN IF sorted_counts[1] > 0
            THEN IF sorted_counts[1] = sorted_counts[2]
                 THEN Zero
                 ELSE Round3(Rat(sorted_counts[1],
                                 sorted_counts[1] - sorted_counts[2]))
            ELSE Zero
    ELSE One

\* lines 503-511 with the two counts taken in option order, not sorted
RowConfidence_unsorted(all_pixel_counts) ==
    IF Len(all_pixel_counts) > 1
    THEN IF all_pixel_counts[1] > 0
         THEN Round3(Rat(all_pixel_counts[1] - all_pixel_counts[2],
                         all_pixel_counts[1]))
         ELSE Zero
    ELSE One

\* lines 503-511: the confidence of a row
RowConfidence(all_pixel_counts) ==
    IF Len(all_pixel_counts) > 1
    THEN LET sorted_counts == StableSort(all_pixel_counts,
                                         [i \in 1..Len(all_pixel_counts) |->
                                             -all_pixel_counts[i]])
         IN IF sorted_counts[1] > 0
            THEN Round3(Rat(sorted_counts[1] - sorted_counts[2], sorted_counts[1]))
            ELSE Zero
    ELSE One

\* lines 513-515 with the condition negated
RowAnswer_inverted(all_pixel_counts, min_pixel_threshold) ==
    LET best == MarkLoop(all_pixel_counts, 1, <<-1, -1>>)
    IN IF ~(best[1] > min_pixel_threshold) THEN Letter(best[2]) ELSE "No Response"

\* lines 513-515: the answer of a row
RowAnswer(all_pixel_counts, min_pixel_threshold) ==
    LET best == MarkLoop(all_pixel_counts, 1, <<-1, -1>>)
    IN IF best[1] > min_pixel_threshold THEN Letter(best[2]) ELSE "No Response"

\* d[key] = value of a dict
DictSet(d, key, value) ==
    [k \in (DOMAIN d) \cup {key} |-> IF k = key THEN value ELSE d[k]]

EmptyDict == [k \in {} |-> 0]

-----------------------------------------------------------------------------
(* Frames that are not running *)

NoImage == <<>>

NoRuns == <<>>

\* the frame of a call of process_omr_sheet at line 275
StartFrame(num_questions, num_options, min_pixel_threshold) ==
    [pc |-> "start",
     num_questions |-> num_questions,
     num_options |-> num_options,
     min_pixel_threshold |-> min_pixel_threshold,
     stages |-> <<>>,            \* the stages executed so far, in order
     err |-> "",                 \* message of the OMRProcessingError raised
     width |-> 0, height |-> 0,
     doc_cnt |-> <<>>,
     paper |-> [new_width |-> 0, new_height |-> 0, scale |-> One],
     thresh |-> <<>>,
     detection_result |-> <<>>,  \* <<>>: not assigned yet, <<dict>>: assigned
     question_cnts |-> <<>>,
     found_bubbles |-> 0,
     expected_bubbles |-> 0,
     total_rows_to_process |-> 0,
     q_idx |-> 0,
     rows |-> <<>>,              \* cnts and all_pixel_counts of each pass of
                                 \* the row loop so far
     responses |-> EmptyDict,
     confidence_scores |-> EmptyDict,
     result |-> <<>>]            \* <<>>: nothing returned, <<dict>>: returned

PsIdle == [pc |-> "idle", found_count |-> 0, other_count |-> 0,
           expected_count |-> 0, score |-> Zero, other_score |-> Zero]

AppIdle == [now |-> 0]

MsIdle == [pc |-> "idle", thresh_image |-> <<>>, expected_count |-> 0, k |-> 0,
           st |-> MsStart, evaluated |-> <<>>, ret |-> <<>>]

-----------------------------------------------------------------------------
(* Two calls of calculate_proximity_score with the same expected_count *)

PsInit ==
    \E f \in 0..MaxFound, g \in 0..MaxFound, e \in 0..MaxExpected :
        ps = [pc |-> "first", found_count |-> f, other_count |-> g,
              expected_count |-> e, score |-> Zero, other_score |-> Zero]

PsFirstCall ==
    /\ ps.pc = "first"
    /\ ps' = [ps EXCEPT !.pc = "second",
                        !.score = calculate_proximity_score(ps.found_count,
                                                            ps.expected_count)]
    /\ UNCHANGED <<image, runs, ms, app>>

PsSecondCall ==
    /\ ps.pc = "second"
    /\ ps' = [ps EXCEPT !.pc = "done",
                        !.other_score = calculate_proximity_score(ps.other_count,
                                                                  ps.expected_count)]
    /\ UNCHANGED <<image, runs, ms, app>>

InitScore ==
    /\ PsInit
    /\ image = NoImage
    /\ runs = NoRuns
    /\ ms = MsIdle
    /\ app = AppIdle

NextScore == PsFirstCall \/ PsSecondCall

SpecScore == InitScore /\ [][NextScore]_vars

-----------------------------------------------------------------------------
(* Claims about calculate_proximity_score (SpecScore) *)

\* found/expected lies outside the bonus band [0.8, 1.2]
OutsideBand(found, expected) ==
    10 * found < 8 * expected \/ 10 * found > 12 * expected

\* both calls have returned, on counts outside the band, the first one closer
\* to expected_count than the second
PsComparable ==
    /\ ps.pc = "done"
    /\ ps.expected_count > 0
    /\ OutsideBand(ps.found_count, ps.expected_count)
    /\ OutsideBand(ps.other_count, ps.expected_count)
    /\ Abs(ps.found_count - ps.expected_count)
         < Abs(ps.other_count - ps.expected_count)

\* C8 as stated: outside the bonus band the count that is closer to
\* expected_count always gets the strictly higher score.
C8_StrictlyDecreasing ==
    PsComparable => RatLT(ps.other_score, ps.score)

\* C8 amended: outside the bonus band the closer count never gets the lower
\* score, and it gets the strictly higher one whenever its distance to
\* expected_count is below expected_count (its score is not clamped to 0).
C8_DecreasingUntilClamped ==
    PsComparable =>
        /\ RatLE(ps.other_score, ps.score)
        /\ (Abs(ps.found_count - ps.expected_count) < ps.expected_count
                => RatLT(ps.other_score, ps.score))

C8_Witness ==
    /\ PsComparable
    /\ Abs(ps.found_count - ps.expected_count) < ps.expected_count
    /\ ps.found_count < ps.expected_count
    /\ ps.other_count > ps.expected_count

\* the formula of the claim, in units of 1/(10 * expected)
ClaimedScoreTenths(found, expected) ==
    LET clamped == IF 10 * expected - 10 * Abs(found - expected) < 0
                   THEN 0
                   ELSE 10 * expected - 10 * Abs(found - expected)
        b == IF 8 * expected <= 10 * found /\ 10 * found <= 12 * expected
             THEN expected ELSE 0
    IN IF clamped + b > 10 * expected THEN 10 * expected ELSE clamped + b

\* C9: for found >= 0 and expected > 0 the returned score equals
\* min(1, max(0, 1 - |found - expected|/expected) + b), b = 0.1 inside the
\* band 0.8 <= found/expected <= 1.2 and 0 outside, and lies in [0, 1].
C9_ScoreFormula ==
    (ps.pc \in {"second", "done"} /\ ps.expected_count > 0) =>
        /\ ps.score[1] * (10 * ps.expected_count)
             = ClaimedScoreTenths(ps.found_count, ps.expected_count) * ps.score[2]
        /\ ps.score[2] > 0
        /\ 0 <= ps.score[1]
        /\ ps.score[1] <= ps.score[2]

\* a call on the lower edge of the band, where the bonus applies, and the
\* result is not clamped
C9_Witness ==
    /\ ps.pc \in {"second", "done"}
    /\ ps.expected_count > 0
    /\ 10 * ps.found_count = 8 * ps.expected_count
    /\ ps.score = Rat(9, 10)

-----------------------------------------------------------------------------
(* process_omr_sheet, one stage per step, for each invocation i *)

ErrCounts == "num_questions and num_options must be positive integers"
ErrThreshold == "min_pixel_threshold must be a positive integer"
ErrDecode == "Could not decode image bytes"
ErrSheet == "Could not find the OMR sheet outline in the image"
ErrBubbles == "Found {found_bubbles} bubbles, but expected {expected_bubbles}"

\* raise OMRProcessingError(message): the call ends, nothing is returned
Raise(r, message) == [r EXCEPT !.pc = "done", !.err = message]

\* lines 278-282 with the check of min_pixel_threshold left out
ParamError_nothreshold(num_questions, num_options, min_pixel_threshold) ==
    IF num_questions <= 0 \/ num_options <= 0 THEN ErrCounts ELSE ""

\* lines 278-282: the message of the parameter check, "" when it passes
ParamError(num_questions, num_options, min_pixel_threshold) ==
    IF num_questions <= 0 \/ num_options <= 0 THEN ErrCounts
    ELSE IF min_pixel_threshold <= 0 THEN ErrThreshold
    ELSE ""

\* lines 462-473 left out: no count is too low
TooFewBubbles_never(found_bubbles, expected_bubbles) == FALSE

\* line 462 with <= in place of <
TooFewBubbles_orequal(found_bubbles, expected_bubbles) ==
    found_bubbles <= expected_bubbles

\* line 462
TooFewBubbles(found_bubbles, expected_bubbles) ==
    found_bubbles < expected_bubbles

\* line 480 without the cap at num_questions
TotalRows_uncapped(num_questions, found_bubbles, num_options) ==
    found_bubbles \div num_options

\* line 480
TotalRows(num_questions, found_bubbles, num_options) ==
    IF num_questions < found_bubbles \div num_options
    THEN num_questions
    ELSE found_bubbles \div num_options

\* lines 522-533 with the confidence scores left out of the metadata
BuildResult_noconfidence(r, processing_time) ==
    [responses |-> r.responses,
     metadata |-> [processing_time_seconds |-> processing_time,
                   image_dimensions |-> [width |-> r.width, height |-> r.height],
                   bubbles_found |-> r.found_bubbles,
                   bubbles_expected |-> r.expected_bubbles,
                   questions_processed |-> r.total_rows_to_process,
                   min_pixel_threshold_used |-> r.min_pixel_threshold]]

\* lines 522-533
BuildResult(r, processing_time) ==
    [responses |-> r.responses,
     metadata |-> [processing_time_seconds |-> processing_time,
                   image_dimensions |-> [width |-> r.width, height |-> r.height],
                   bubbles_found |-> r.found_bubbles,
                   bubbles_expected |-> r.expected_bubbles,
                   questions_processed |-> r.total_rows_to_process,
                   confidence_scores |-> r.confidence_scores,
                   min_pixel_threshold_used |-> r.min_pixel_threshold]]

\* lines 275-282
Validate(i) ==
    LET r == runs[i]
        message == ParamError(r.num_questions, r.num_options, r.min_pixel_threshold)
    IN /\ r.pc = "start"
       /\ runs' = [runs EXCEPT ![i] = IF message # "" THEN Raise(r, message)
                                      ELSE [r EXCEPT !.pc = "decode"]]
       /\ UNCHANGED <<image, ps, ms, app>>

\* lines 285-292 without the check of line 288: bytes that do not decode go
\* on to the search for the sheet, as an image without contours
Decode_unchecked(i) ==
    LET r == [runs[i] EXCEPT !.stages = Append(@, "decode")]
    IN /\ runs[i].pc = "decode"
       /\ runs' = [runs EXCEPT ![i] =
                     [r EXCEPT !.pc = "locate",
                               !.width = image[i].width,
                               !.height = image[i].height]]
       /\ UNCHANGED <<image, ps, ms, app>>

\* lines 285-292
Decode(i) ==
    LET r == [runs[i] EXCEPT !.stages = Append(@, "decode")]
    IN /\ runs[i].pc = "decode"
       /\ runs' = [runs EXCEPT ![i] =
                     IF ~image[i].decodable THEN Raise(r, ErrDecode)
                     ELSE [r EXCEPT !.pc = "locate",
                                    !.width = image[i].width,
                                    !.height = image[i].height]]
       /\ UNCHANGED <<image, ps, ms, app>>

\* lines 295-313
LocateSheet(i) ==
    LET r == [runs[i] EXCEPT !.stages = Append(@, "locate")]
        cnts == image[i].sheet
        doc_cnt == IF Len(cnts) > 0 THEN FirstQuad(SortByAreaDesc(cnts)) ELSE <<>>
    IN /\ runs[i].pc = "locate"
       /\ runs' = [runs EXCEPT ![i] =
                     IF doc_cnt = <<>> THEN Raise(r, ErrSheet)
                     ELSE [r EXCEPT !.pc = "normalize", !.doc_cnt = doc_cnt]]
       /\ UNCHANGED <<image, ps, ms, app>>

\* lines 316-334: four_point_transform yields a paper of pw x ph pixels
Normalize(i) ==
    LET r == [runs[i] EXCEPT !.stages = Append(@, "normalize")]
    IN /\ runs[i].pc = "normalize"
       /\ runs' = [runs EXCEPT ![i] =
                     [r EXCEPT !.pc = "binarize",
                               !.paper = ResizedPaper(r.doc_cnt[1].pw,
                                                      r.doc_cnt[1].ph)]]
       /\ UNCHANGED <<image, ps, ms, app>>

\* lines 341-388: thresh, as the contours cv2.findContours reports for it
Binarize(i) ==
    LET r == [runs[i] EXCEPT !.stages = Append(@, "binarize")]
    IN /\ runs[i].pc = "binarize"
       /\ runs' = [runs EXCEPT ![i] = [r EXCEPT !.pc = "detect",
                                                !.thresh = image[i].thresh]]
       /\ UNCHANGED <<image, ps, ms, app>>

\* lines 453-480: the frame once question_cnts is chosen
CountAndSort(r, question_cnts) ==
    LET found_bubbles == Len(question_cnts)
        counted == [r EXCEPT !.found_bubbles = found_bubbles,
                             !.question_cnts = question_cnts]
    IN IF TooFewBubbles(found_bubbles, r.expected_bubbles)
       THEN Raise(counted, ErrBubbles)
       ELSE [counted EXCEPT
               !.pc = "score",
               !.question_cnts = sort_contours(question_cnts, "top-to-bottom"),
               !.total_rows_to_process =
                   TotalRows(r.num_questions, found_bubbles, r.num_options),
               !.q_idx = 0]

\* lines 401-480 with question_cnts kept in a list that outlives the call:
\* a later call starts from the contours of the calls before it
DetectBubbles_accumulating(i) ==
    LET r == [runs[i] EXCEPT !.stages = Append(@, "detect"),
                             !.expected_bubbles = runs[i].num_questions
                                                    * runs[i].num_options]
        earlier(j) == IF j # i /\ "detect" \in Range(runs[j].stages)
                      THEN runs[j].question_cnts ELSE <<>>
        kept == earlier(CHOOSE j \in DOMAIN runs : j # i \/ Len(runs) = 1)
    IN /\ runs[i].pc = "detect"
       /\ \E detection_result \in
                {multi_scale_bubble_detection(r.thresh, r.expected_bubbles)} :
          \E question_cnts \in
                {SelectQuestionCnts(detection_result, r.thresh, r.expected_bubbles)} :
             runs' = [runs EXCEPT ![i] =
                        CountAndSort([r EXCEPT !.detection_result = <<detection_result>>],
                                     kept \o question_cnts)]
       /\ UNCHANGED <<image, ps, ms, app>>

\* lines 401-480
DetectBubbles(i) ==
    LET r == [runs[i] EXCEPT !.stages = Append(@, "detect"),
                             !.expected_bubbles = runs[i].num_questions
                                                    * runs[i].num_options]
    IN /\ runs[i].pc = "detect"
       /\ \E detection_result \in
                {multi_scale_bubble_detection(r.thresh, r.expected_bubbles)} :
          \E question_cnts \in
                {SelectQuestionCnts(detection_result, r.thresh, r.expected_bubbles)} :
             runs' = [runs EXCEPT ![i] =
                        CountAndSort([r EXCEPT !.detection_result = <<detection_result>>],
                                     question_cnts)]
       /\ UNCHANGED <<image, ps, ms, app>>

\* lines 482-517 with i = q_idx at line 483: rows that overlap
ScoreRow_overlapping(i) ==
    LET r == [runs[i] EXCEPT !.stages = Append(@, "score")]
        first == r.q_idx
        cnts == sort_contours(SubSeq(r.question_cnts, first + 1,
                                     first + r.num_options), "left-to-right")
        all_pixel_counts == [k \in 1..Len(cnts) |-> cnts[k].pix]
        key == Str(r.q_idx + 1)
    IN /\ runs[i].pc = "score"
       /\ r.q_idx < r.total_rows_to_process
       /\ runs' = [runs EXCEPT ![i] =
                     [r EXCEPT !.confidence_scores =
                                   DictSet(@, key, RowConfidence(all_pixel_counts)),
                               !.responses =
                                   DictSet(@, key, RowAnswer(all_pixel_counts,
                                                             r.min_pixel_threshold)),
                               !.rows = Append(@, [cnts |-> cnts,
                                                   all_pixel_counts |-> all_pixel_counts]),
                               !.q_idx = @ + 1]]
       /\ UNCHANGED <<image, ps, ms, app>>

\* lines 482-517: one pass of the loop over the rows
ScoreRow(i) ==
    LET r == [runs[i] EXCEPT !.stages = Append(@, "score")]
        first == r.q_idx * r.num_options
        cnts == sort_contours(SubSeq(r.question_cnts, first + 1,
                                     first + r.num_options), "left-to-right")
        all_pixel_counts == [k \in 1..Len(cnts) |-> cnts[k].pix]
        key == Str(r.q_idx + 1)
    IN /\ runs[i].pc = "score"
       /\ r.q_idx < r.total_rows_to_process
       /\ runs' = [runs EXCEPT ![i] =
                     [r EXCEPT !.confidence_scores =
                                   DictSet(@, key, RowConfidence(all_pixel_counts)),
                               !.responses =
                                   DictSet(@, key, RowAnswer(all_pixel_counts,
                                                             r.min_pixel_threshold)),
                               !.rows = Append(@, [cnts |-> cnts,
                                                   all_pixel_counts |-> all_pixel_counts]),
                               !.q_idx = @ + 1]]
       /\ UNCHANGED <<image, ps, ms, app>>

\* lines 519-535
Return(i) ==
    LET r == runs[i]
    IN /\ r.pc = "score"
       /\ r.q_idx >= r.total_rows_to_process
       /\ \E processing_time \in 0..MaxElapsed :
            runs' = [runs EXCEPT ![i] =
                       [r EXCEPT !.pc = "done",
                                 !.result = <<BuildResult(r, processing_time)>>]]
       /\ UNCHANGED <<image, ps, ms, app>>

\* any invocation that has not ended runs its next stage
NextPipeline ==
    \/ \E i \in DOMAIN runs : Validate(i)
    \/ \E i \in DOMAIN runs : Decode(i)
    \/ \E i \in DOMAIN runs : LocateSheet(i)
    \/ \E i \in DOMAIN runs : Normalize(i)
    \/ \E i \in DOMAIN runs : Binarize(i)
    \/ \E i \in DOMAIN runs : DetectBubbles(i)
    \/ \E i \in DOMAIN runs : ScoreRow(i)
    \/ \E i \in DOMAIN runs : Return(i)

-----------------------------------------------------------------------------
(* Images *)

Image(decodable, sheet, thresh) ==
    [decodable |-> decodable, width |-> 640, height |-> 480,
     sheet |-> sheet, thresh |-> thresh]

\* bytes that cv2.imdecode rejects
Undecodable == Image(FALSE, <<>>, <<>>)

\* a contour of the edge map: its area, the number of vertices of its
\* approximation, and the size of the paper four_point_transform warps it to
SheetContours ==
    {[area |-> a, verts |-> v, pw |-> 600 * a, ph |-> 900] :
        a \in 1..MaxArea, v \in {4, 5}}

\* a photo whose edge map has one outline with 4 vertices
OneSheet == <<[area |-> 1, verts |-> 4, pw |-> 600, ph |-> 900]>>

\* photos that differ in their edge map, with a blank sheet
SheetImages ==
    {Image(TRUE, sheet, <<>>) : sheet \in SeqsUpTo(SheetContours, MaxSheetContours)}

\* photos of one sheet that differ in the contours of the binarized sheet
BubbleImages(contours, n) ==
    {Image(TRUE, OneSheet, thresh) : thresh \in SeqsUpTo(contours, n)}

\* set pixels inside a contour: none, as many as the highest threshold, more
PixLevels == {0, MaxThreshold, MaxThreshold + 1}

\* contours that differ in what lets them pass the filters (only the second
\* fallback filter, every filter, only the fallback filters) and in being
\* blank or filled
SizedContours ==
    {Contour(0, 0, b[1], b[2], pix) :
        b \in {<<3, 3>>, <<10, 10>>, <<40, 40>>}, pix \in {0, MaxThreshold + 1}}

-----------------------------------------------------------------------------
(* One invocation of process_omr_sheet *)

Init ==
    /\ \E bytes \in {Undecodable} \cup SheetImages
                        \cup BubbleImages(SizedContours, MaxContours) :
          image = <<bytes>>
    /\ \E q \in 0..MaxQuestions, o \in 0..MaxOptions, t \in 0..MaxThreshold :
          runs = <<StartFrame(q, o, t)>>
    /\ ps = PsIdle
    /\ ms = MsIdle
    /\ app = AppIdle

Next == NextPipeline

Spec == Init /\ [][Next]_vars

-----------------------------------------------------------------------------
(* One invocation, on sheets that differ in where the bubbles are and in  *)
(* how much of each is filled                                             *)

PlacedContours ==
    {Contour(x, y, 10, 10, pix) : x \in 0..1, y \in 0..1, pix \in PixLevels}

InitRows ==
    /\ \E bytes \in {Undecodable} \cup BubbleImages(PlacedContours, MaxRowContours) :
          image = <<bytes>>
    /\ \E q \in 0..MaxQuestions, o \in 0..MaxOptions, t \in 0..MaxThreshold :
          runs = <<StartFrame(q, o, t)>>
    /\ ps = PsIdle
    /\ ms = MsIdle
    /\ app = AppIdle

SpecRows == InitRows /\ [][Next]_vars

-----------------------------------------------------------------------------
(* One invocation, on sheets whose bubbles lie on a 2 x 2 grid, listed in  *)
(* any order                                                               *)

GridContours ==
    {Contour(x, y, 10, 10, MaxThreshold + 1) : x \in 0..1, y \in 0..1}

InitGrid ==
    /\ \E bytes \in {Undecodable} \cup BubbleImages(GridContours, MaxGridContours) :
          image = <<bytes>>
    /\ \E q \in 0..MaxQuestions, o \in 0..MaxOptions, t \in 0..MaxThreshold :
          runs = <<StartFrame(q, o, t)>>
    /\ ps = PsIdle
    /\ ms = MsIdle
    /\ app = AppIdle

SpecGrid == InitGrid /\ [][Next]_vars

-----------------------------------------------------------------------------
(* Two invocations on the same image bytes, with the same num_questions   *)
(* and num_options and thresholds t1 <= t2, their stages interleaved      *)

FilledContours == {Contour(0, 0, 10, 10, pix) : pix \in PixLevels}

InitPair ==
    /\ \E bytes \in {Undecodable} \cup BubbleImages(FilledContours, MaxPairContours) :
          image = <<bytes, bytes>>
    /\ \E q \in 0..MaxQuestions, o \in 0..MaxOptions,
          t1 \in 0..MaxThreshold, t2 \in 0..MaxThreshold :
          /\ t1 <= t2
          /\ runs = <<StartFrame(q, o, t1), StartFrame(q, o, t2)>>
    /\ ps = PsIdle
    /\ ms = MsIdle
    /\ app = AppIdle

SpecPair == InitPair /\ [][Next]_vars

-----------------------------------------------------------------------------
(* Two invocations with image bytes of their own, the second one with the  *)
(* counts of questions and options mirrored, their stages interleaved     *)

MixContours == {Contour(0, 0, 10, 10, pix) : pix \in {0, MaxThreshold + 1}}

MixImages == {Undecodable} \cup BubbleImages(MixContours, MaxMixContours)

InitMix ==
    /\ \E bytes1 \in MixImages, bytes2 \in MixImages :
          image = <<bytes1, bytes2>>
    /\ \E q \in 1..MaxQuestions, o \in 1..MaxOptions :
          runs = <<StartFrame(q, o, MaxThreshold),
                   StartFrame(MaxQuestions + 1 - q, MaxOptions + 1 - o, MaxThreshold)>>
    /\ ps = PsIdle
    /\ ms = MsIdle
    /\ app = AppIdle

SpecMix == InitMix /\ [][Next]_vars

\* lines 275-535 run from the first line to the last with nothing in
\* between: the message of the error raised ("" if none) and the result
\* returned, but for its processing time
process_omr_sheet(image_bytes, num_questions, num_options, min_pixel_threshold) ==
    LET message == ParamError(num_questions, num_options, min_pixel_threshold)
        failed(m) == [err |-> m, result |-> <<>>]
        cnts == image_bytes.sheet
        doc_cnt == IF Len(cnts) > 0 THEN FirstQuad(SortByAreaDesc(cnts)) ELSE <<>>
        thresh == image_bytes.thresh
        expected_bubbles == num_questions * num_options
        detection_result == multi_scale_bubble_detection(thresh, expected_bubbles)
        question_cnts == SelectQuestionCnts(detection_result, thresh, expected_bubbles)
        found_bubbles == Len(question_cnts)
        sorted_cnts == sort_contours(question_cnts, "top-to-bottom")
        total_rows_to_process == TotalRows(num_questions, found_bubbles, num_options)
        all_pixel_counts(q_idx) ==
            LET row == sort_contours(SubSeq(sorted_cnts, q_idx * num_options + 1,
                                            (q_idx + 1) * num_options),
                                     "left-to-right")
            IN [k \in 1..Len(row) |-> row[k].pix]
        q_idx_of(key) == CHOOSE q_idx \in 0..(total_rows_to_process - 1) :
                             Str(q_idx + 1) = key
        keys == {Str(q_idx + 1) : q_idx \in 0..(total_rows_to_process - 1)}
    IN IF message # "" THEN failed(message)
       ELSE IF ~image_bytes.decodable THEN failed(ErrDecode)
       ELSE IF doc_cnt = <<>> THEN failed(ErrSheet)
       ELSE IF TooFewBubbles(found_bubbles, expected_bubbles) THEN failed(ErrBubbles)
       ELSE [err |-> "",
             result |-> <<[responses |->
                              [key \in keys |->
                                  RowAnswer(all_pixel_counts(q_idx_of(key)),
                                            min_pixel_threshold)],
                           image_dimensions |-> [width |-> image_bytes.width,
                                                 height |-> image_bytes.height],
                           bubbles_found |-> found_bubbles,
                           bubbles_expected |-> expected_bubbles,
                           questions_processed |-> total_rows_to_process,
                           confidence_scores |->
                              [key \in keys |->
                                  RowConfidence(all_pixel_counts(q_idx_of(key)))],
                           min_pixel_threshold_used |-> min_pixel_threshold]>>]

-----------------------------------------------------------------------------
(* One call of multi_scale_bubble_detection, one combination per step *)

\* bounding boxes (w, h) of the contours handed to the detector: passed by
\* the first size range only, by the first four, by the last four, by the
\* two widest aspect-ratio ranges only, by no size range
DetBoxes == {<<5, 5>>, <<10, 10>>, <<20, 20>>, <<10, 14>>, <<40, 40>>}

MsInit ==
    \E t \in SeqsUpTo({Contour(0, 0, b[1], b[2], 0) : b \in DetBoxes}, MaxDetContours),
       e \in 1..MaxDetExpected :
        ms = [pc |-> "loop", thresh_image |-> t, expected_count |-> e, k |-> 1,
              st |-> MsStart, evaluated |-> <<>>, ret |-> <<>>]

\* one pass of the loops of lines 205-233; evaluated records the parameters
\* handed to detect_bubbles_with_threshold
MsEvaluate ==
    /\ ms.pc = "loop"
    /\ ms.k <= NumCombos
    /\ ms' = [ms EXCEPT !.st = MsLoop(ms.st, ms.thresh_image,
                                      ms.expected_count, ms.k, ms.k),
                        !.evaluated = Append(@, <<ComboSize(ms.k), ComboAr(ms.k)>>),
                        !.k = @ + 1]
    /\ UNCHANGED <<image, runs, ps, app>>

MsReturn ==
    /\ ms.pc = "loop"
    /\ ms.k > NumCombos
    /\ ms' = [ms EXCEPT !.pc = "done", !.ret = <<MsFinish(ms.st)>>]
    /\ UNCHANGED <<image, runs, ps, app>>

InitDetect ==
    /\ MsInit
    /\ image = NoImage
    /\ runs = NoRuns
    /\ ps = PsIdle
    /\ app = AppIdle

NextDetect == MsEvaluate \/ MsReturn

SpecDetect == InitDetect /\ [][NextDetect]_vars

-----------------------------------------------------------------------------
(* Claims about multi_scale_bubble_detection (SpecDetect) *)

\* what the k-th combination finds in the image of the call, and its score
ComboBubbles(k) ==
    detect_bubbles_with_threshold(ms.thresh_image, ComboSize(k)[1],
                                  ComboSize(k)[2], ComboAr(k))

ComboScore(k) == calculate_proximity_score(Len(ComboBubbles(k)), ms.expected_count)

ComboResult(k) ==
    [bubbles |-> ComboBubbles(k), count |-> Len(ComboBubbles(k)),
     score |-> ComboScore(k), min_size |-> ComboSize(k)[1],
     max_size |-> ComboSize(k)[2], aspect_ratio_range |-> ComboAr(k)]

\* the first combination, in search order, among those of highest score
FirstBest ==
    CHOOSE k \in 1..NumCombos :
        /\ \A j \in 1..NumCombos : RatLE(ComboScore(j), ComboScore(k))
        /\ \A j \in 1..(k - 1) : RatLT(ComboScore(j), ComboScore(k))

\* every pair (size range, aspect-ratio range) was evaluated exactly once:
\* the j-th aspect-ratio range of the i-th size range as pass 4 * (i - 1) + j
AllEvaluatedInOrder ==
    /\ Len(ms.evaluated) = 28
    /\ \A i \in 1..7, j \in 1..4 :
          ms.evaluated[4 * (i - 1) + j] = <<size_ranges[i], aspect_ratio_ranges[j]>>

\* C10 as stated: all 28 combinations are evaluated, size ranges outer and
\* aspect-ratio ranges inner, and the call returns the combination of highest
\* score, the first one in search order among equals.
C10_ReturnsFirstBest ==
    ms.pc = "done" =>
        /\ AllEvaluatedInOrder
        /\ ms.ret = <<ComboResult(FirstBest)>>

\* C10 amended: all 28 combinations are evaluated in that order; when some
\* combination scores above 0 the call returns the combination of highest
\* score, the first one in search order among equals; when none scores above
\* 0 it returns the default result (no shapes, count 0, score 0, sizes 10-25,
\* aspect ratios 0.5-1.5), which is none of the 28.
C10_ReturnsFirstBestOrDefault ==
    ms.pc = "done" =>
        /\ AllEvaluatedInOrder
        /\ ms.ret = IF RatLT(Zero, ComboScore(FirstBest))
                    THEN <<ComboResult(FirstBest)>>
                    ELSE <<DefaultResult>>

\* a call where the best combination is not the first one tried, is tied with
\* a later one, and is returned
C10_Witness ==
    /\ ms.pc = "done"
    /\ RatLT(Zero, ComboScore(FirstBest))
    /\ FirstBest > 1
    /\ \E j \in (FirstBest + 1)..NumCombos : ComboScore(j) = ComboScore(FirstBest)
    /\ ms.ret = <<ComboResult(FirstBest)>>

-----------------------------------------------------------------------------
(* One call of multi_scale_bubble_detection on a crowded sheet: many small *)
(* shapes, which the size ranges 1 to 4 pass, followed by a few large      *)
(* ones, which the size ranges 4 to 7 pass                                 *)

Copies(n, c) == [i \in 1..n |-> c]

CrowdedSheets ==
    {Copies(n, Contour(0, 0, 10, 10, 0)) \o Copies(m, Contour(0, 0, 20, 20, 0)) :
        n \in 0..MaxCrowdSmall, m \in 0..MaxCrowdLarge}

InitCrowd ==
    /\ \E t \in CrowdedSheets, e \in 1..MaxCrowdExpected :
          ms = [pc |-> "loop", thresh_image |-> t, expected_count |-> e, k |-> 1,
                st |-> MsStart, evaluated |-> <<>>, ret |-> <<>>]
    /\ image = NoImage
    /\ runs = NoRuns
    /\ ps = PsIdle
    /\ app = AppIdle

SpecCrowd == InitCrowd /\ [][NextDetect]_vars

\* C11: the result of the call is at least as close to expected_count as
\* what any of the 28 combinations finds, and when some combination finds
\* exactly expected_count shapes, so many are returned.
C11_ClosestCount ==
    ms.pc = "done" =>
        /\ \A k \in 1..NumCombos :
              Abs(ms.ret[1].count - ms.expected_count)
                <= Abs(Len(ComboBubbles(k)) - ms.expected_count)
        /\ (\E k \in 1..NumCombos : Len(ComboBubbles(k)) = ms.expected_count)
              => ms.ret[1].count = ms.expected_count

-----------------------------------------------------------------------------
(* Claims about process_omr_sheet *)

InvalidParams(r) ==
    r.num_questions <= 0 \/ r.num_options <= 0 \/ r.min_pixel_threshold <= 0

\* the keys str(1), ..., str(n)
Keys(n) == {Str(q) : q \in 1..n}

MetadataFields ==
    {"processing_time_seconds", "image_dimensions", "bubbles_found",
     "bubbles_expected", "questions_processed", "confidence_scores",
     "min_pixel_threshold_used"}

Succeeded(r) == r.pc = "done" /\ r.result # <<>>

\* C1: whatever the image bytes are, a call with num_questions <= 0,
\* num_options <= 0 or min_pixel_threshold <= 0 fails with the
\* invalid-parameter error, and no stage (decoding or later) has run.
C1_InvalidParamsFailFirst ==
    \A i \in DOMAIN runs :
        (InvalidParams(runs[i]) /\ runs[i].pc # "start") =>
            /\ runs[i].pc = "done"
            /\ runs[i].err \in {ErrCounts, ErrThreshold}
            /\ runs[i].stages = <<>>
            /\ runs[i].result = <<>>

\* a decodable photo of a sheet with bubbles, refused for its threshold alone
C1_Witness ==
    /\ image[1].decodable
    /\ image[1].thresh # <<>>
    /\ runs[1].num_questions > 0
    /\ runs[1].num_options > 0
    /\ runs[1].min_pixel_threshold <= 0
    /\ runs[1].pc = "done"
    /\ runs[1].err = ErrThreshold

\* C2: a call ends either with an error and no result, or with a complete
\* result (responses and the seven metadata fields, one response and one
\* confidence score for each row to process); no result exists before the
\* end, or next to an error.
C2_ErrorOrCompleteResult ==
    \A i \in DOMAIN runs :
        LET r == runs[i]
        IN /\ r.result # <<>> => r.pc = "done" /\ r.err = ""
           /\ r.err # "" => r.pc = "done" /\ r.result = <<>>
           /\ r.pc = "done" => (r.err # "" \/ r.result # <<>>)
           /\ r.result # <<>> =>
                /\ DOMAIN r.result[1] = {"responses", "metadata"}
                /\ DOMAIN r.result[1].metadata = MetadataFields
                /\ DOMAIN r.result[1].responses = Keys(r.total_rows_to_process)
                /\ DOMAIN r.result[1].metadata.confidence_scores
                     = Keys(r.total_rows_to_process)

\* a call that returned the answers of two rows
C2_Witness ==
    /\ Succeeded(runs[1])
    /\ runs[1].total_rows_to_process = 2
    /\ Cardinality(DOMAIN runs[1].result[1].responses) = 2

\* C3: with E = num_questions * num_options, a call fails with the
\* insufficient-bubbles error exactly when it reaches the count of the shapes
\* and that count is below E; every result has bubbles_found >= bubbles_expected.
C3_InsufficientBubbles ==
    \A i \in DOMAIN runs :
        LET r == runs[i]
            E == r.num_questions * r.num_options
            counted == "detect" \in Range(r.stages)
        IN r.pc = "done" =>
            /\ counted => r.expected_bubbles = E
            /\ r.err = ErrBubbles <=> (counted /\ r.found_bubbles < E)
            /\ r.result # <<>> =>
                 /\ r.result[1].metadata.bubbles_expected = E
                 /\ r.result[1].metadata.bubbles_found = r.found_bubbles
                 /\ r.result[1].metadata.bubbles_found >= E

\* a call that found one shape fewer than it needs, and failed
C3_Witness ==
    /\ runs[1].pc = "done"
    /\ runs[1].err = ErrBubbles
    /\ runs[1].found_bubbles > 0
    /\ runs[1].found_bubbles + 1 = runs[1].num_questions * runs[1].num_options

\* C4: in every result questions_processed is
\* min(num_questions, bubbles_found // num_options), and responses and
\* confidence_scores each have exactly the keys str(1)..str(questions_processed),
\* that many of them.
C4_RowCompleteness ==
    \A i \in DOMAIN runs :
        Succeeded(runs[i]) =>
            LET r == runs[i]
                md == r.result[1].metadata
                whole == md.bubbles_found \div r.num_options
            IN /\ md.questions_processed
                    = IF r.num_questions < whole THEN r.num_questions ELSE whole
               /\ DOMAIN r.result[1].responses = Keys(md.questions_processed)
               /\ DOMAIN md.confidence_scores = Keys(md.questions_processed)
               /\ Cardinality(DOMAIN r.result[1].responses) = md.questions_processed
               /\ Cardinality(DOMAIN md.confidence_scores) = md.questions_processed

\* a result where more whole rows of shapes were found than there are questions
C4_Witness ==
    /\ Succeeded(runs[1])
    /\ runs[1].found_bubbles \div runs[1].num_options > runs[1].num_questions
    /\ runs[1].result[1].metadata.questions_processed = runs[1].num_questions

\* C5: every confidence score, of a result or of a row scored so far, lies
\* in [0, 1].
C5_ConfidenceBounds ==
    \A i \in DOMAIN runs :
        /\ \A k \in DOMAIN runs[i].confidence_scores :
              /\ RatLE(Zero, runs[i].confidence_scores[k])
              /\ RatLE(runs[i].confidence_scores[k], One)
        /\ Succeeded(runs[i]) =>
              \A k \in DOMAIN runs[i].result[1].metadata.confidence_scores :
                 /\ RatLE(Zero, runs[i].result[1].metadata.confidence_scores[k])
                 /\ RatLE(runs[i].result[1].metadata.confidence_scores[k], One)

\* a result with a row of two options whose confidence is strictly between
\* 0 and 1
C5_Witness ==
    /\ Succeeded(runs[1])
    /\ runs[1].num_options = 2
    /\ \E k \in DOMAIN runs[1].result[1].metadata.confidence_scores :
          /\ RatLT(Zero, runs[1].result[1].metadata.confidence_scores[k])
          /\ RatLT(runs[1].result[1].metadata.confidence_scores[k], One)

-----------------------------------------------------------------------------
(* Claims about two invocations on the same image (SpecPair) *)

BothDone == runs[1].pc = "done" /\ runs[2].pc = "done"

\* the questions of a result that are answered with a letter
Answered(r) ==
    {k \in DOMAIN r.result[1].responses : r.result[1].responses[k] # "No Response"}

\* C6: for the same image, num_questions and num_options and thresholds
\* t1 <= t2 that both pass the parameter check, both calls fail alike or
\* both return; every question answered with a letter under t2 has the same
\* letter under t1, so no more questions are answered under t2 than under t1;
\* the shapes, their rows and the confidence scores are the same.
C6_ThresholdMonotone ==
    (/\ BothDone
     /\ runs[1].min_pixel_threshold > 0
     /\ runs[1].min_pixel_threshold <= runs[2].min_pixel_threshold) =>
        /\ runs[1].err = runs[2].err
        /\ Succeeded(runs[1]) <=> Succeeded(runs[2])
        /\ runs[1].question_cnts = runs[2].question_cnts
        /\ runs[1].found_bubbles = runs[2].found_bubbles
        /\ runs[1].total_rows_to_process = runs[2].total_rows_to_process
        /\ Succeeded(runs[1]) =>
             /\ \A k \in Answered(runs[2]) :
                   /\ k \in Answered(runs[1])
                   /\ runs[1].result[1].responses[k] = runs[2].result[1].responses[k]
             /\ Cardinality(Answered(runs[2])) <= Cardinality(Answered(runs[1]))
             /\ runs[1].result[1].metadata.confidence_scores
                  = runs[2].result[1].metadata.confidence_scores
             /\ runs[1].result[1].metadata.bubbles_found
                  = runs[2].result[1].metadata.bubbles_found
             /\ runs[1].result[1].metadata.questions_processed
                  = runs[2].result[1].metadata.questions_processed

\* two results where the higher threshold suppresses a mark and keeps another
C6_Witness ==
    /\ BothDone
    /\ Succeeded(runs[1])
    /\ Succeeded(runs[2])
    /\ runs[1].min_pixel_threshold < runs[2].min_pixel_threshold
    /\ Answered(runs[2]) # {}
    /\ Cardinality(Answered(runs[2])) < Cardinality(Answered(runs[1]))

\* what two results have to agree on: everything but processing_time_seconds
Comparable(res) ==
    [responses |-> res.responses,
     bubbles_found |-> res.metadata.bubbles_found,
     bubbles_expected |-> res.metadata.bubbles_expected,
     questions_processed |-> res.metadata.questions_processed,
     confidence_scores |-> res.metadata.confidence_scores]

\* C7: two calls with the same image bytes and the same parameters end with
\* the same error, or with results that agree on responses, bubbles_found,
\* bubbles_expected, questions_processed and confidence_scores.
C7_Idempotent ==
    (/\ BothDone
     /\ runs[1].min_pixel_threshold = runs[2].min_pixel_threshold) =>
        /\ runs[1].err = runs[2].err
        /\ Succeeded(runs[1]) <=> Succeeded(runs[2])
        /\ Succeeded(runs[1]) =>
             Comparable(runs[1].result[1]) = Comparable(runs[2].result[1])

\* two calls with the same parameters that returned results with an answered
\* question and different processing times
C7_Witness ==
    /\ BothDone
    /\ runs[1].min_pixel_threshold = runs[2].min_pixel_threshold
    /\ Succeeded(runs[1])
    /\ Succeeded(runs[2])
    /\ Answered(runs[1]) # {}
    /\ runs[1].result[1].metadata.processing_time_seconds
         # runs[2].result[1].metadata.processing_time_seconds

-----------------------------------------------------------------------------
(* Claims about the shapes a call works on (Spec) *)

\* the call has chosen its shapes (lines 415-453)
Detected(r) == "detect" \in Range(r.stages)

\* the contours of s, in their order, that have property P
Passing(s, P(_)) ==
    LET idx == {i \in DOMAIN s : P(s[i])}
        nth(k) == CHOOSE i \in idx : Cardinality({j \in idx : j < i}) = k - 1
    IN [k \in 1..Cardinality(idx) |-> s[nth(k)]]

\* w, h >= 4 and 0.5 <= w/h <= 1.5
PassesFirstCoarse(c) ==
    c.w >= 4 /\ c.h >= 4 /\ c.h <= 2 * c.w /\ 2 * c.w <= 3 * c.h

\* w, h >= 3 and 0.3 <= w/h <= 2.0
PassesSecondCoarse(c) ==
    c.w >= 3 /\ c.h >= 3 /\ 3 * c.h <= 10 * c.w /\ c.w <= 2 * c.h

\* the shapes the claim expects a call to work on, before they are sorted
ChosenShapes(r) ==
    LET E == r.num_questions * r.num_options
        res == r.detection_result[1]
        first == Passing(r.thresh, PassesFirstCoarse)
        second == Passing(r.thresh, PassesSecondCoarse)
    IN IF 10 * res.score[1] >= 3 * res.score[2]
       THEN res.bubbles
       ELSE IF 2 * Len(first) < E THEN second ELSE first

\* C12: the shapes a call works on are the shapes of the multi-scale result,
\* unchanged, when its score is at least 0.3; below 0.3 they are the contours
\* passing the first coarse filter, or those passing the second one exactly
\* when the first filter finds fewer than E/2.
C12_ShapeSelection ==
    \A i \in DOMAIN runs :
        Detected(runs[i]) =>
            LET r == runs[i]
                chosen == ChosenShapes(r)
            IN /\ r.found_bubbles = Len(chosen)
               /\ r.question_cnts = IF r.err = ""
                                    THEN sort_contours(chosen, "top-to-bottom")
                                    ELSE chosen

\* a call whose multi-scale result scored below 0.3, whose first coarse
\* filter found less than half of the shapes, and that works on the larger
\* set the second filter found
C12_Witness ==
    /\ Detected(runs[1])
    /\ 10 * runs[1].detection_result[1].score[1]
         < 3 * runs[1].detection_result[1].score[2]
    /\ 2 * Len(Passing(runs[1].thresh, PassesFirstCoarse)) < runs[1].expected_bubbles
    /\ runs[1].found_bubbles > Len(Passing(runs[1].thresh, PassesFirstCoarse))
    /\ runs[1].found_bubbles = Len(Passing(runs[1].thresh, PassesSecondCoarse))

-----------------------------------------------------------------------------
(* Claims about the sheet locator (Spec) *)

\* the call has searched the edge map for the sheet (lines 300-313)
Located(r) == "locate" \in Range(r.stages)

\* the contours of the edge map whose approximation has 4 vertices
Quads(i) == {k \in DOMAIN image[i].sheet : image[i].sheet[k].verts = 4}

\* C13: the sheet is the contour of largest area among those whose
\* approximation has exactly 4 vertices; when there is none, or no contour at
\* all, the call fails with the sheet-not-found error and no later stage runs.
C13_LargestQuad ==
    \A i \in DOMAIN runs :
        Located(runs[i]) =>
            LET r == runs[i]
            IN IF Quads(i) = {}
               THEN /\ r.pc = "done"
                    /\ r.err = ErrSheet
                    /\ r.stages = <<"decode", "locate">>
                    /\ r.result = <<>>
               ELSE /\ r.err # ErrSheet
                    /\ r.doc_cnt # <<>>
                    /\ \E k \in Quads(i) : image[i].sheet[k] = r.doc_cnt[1]
                    /\ \A k \in Quads(i) : image[i].sheet[k].area <= r.doc_cnt[1].area

\* an edge map that lists a small 4-vertex contour before a larger one, and
\* a call that took the larger one
C13_Witness ==
    /\ Located(runs[1])
    /\ Len(image[1].sheet) = 2
    /\ Quads(1) = {1, 2}
    /\ image[1].sheet[1].area < image[1].sheet[2].area
    /\ runs[1].doc_cnt = <<image[1].sheet[2]>>

-----------------------------------------------------------------------------
(* Claims about the rows of a call (SpecRows) *)

\* the largest element of a non-empty sequence of numbers
MaxOf(p) == CHOOSE m \in Range(p) : \A v \in Range(p) : v <= m

\* the leftmost position (from 0) of the largest element
LeftmostMax(p) == CHOOSE k \in 0..(Len(p) - 1) :
                      /\ p[k + 1] = MaxOf(p)
                      /\ \A j \in 0..(k - 1) : p[j + 1] # MaxOf(p)

SecondOf(p) ==
    LET top == CHOOSE k \in DOMAIN p : p[k] = MaxOf(p)
    IN CHOOSE m \in {p[k] : k \in DOMAIN p \ {top}} :
           \A k \in DOMAIN p \ {top} : p[k] <= m

\* C15 as stated: the confidence of a row is (top1 - top2)/top1 when the row
\* has at least 2 options and top1 > 0, 0.0 when it has at least 2 options
\* and top1 = 0, and 1.0 when it has one option.
C15_ExactQuotient ==
    \A i \in DOMAIN runs :
        \A q \in DOMAIN runs[i].rows :
            LET p == runs[i].rows[q].all_pixel_counts
                confidence == runs[i].confidence_scores[Str(q)]
            IN confidence = IF Len(p) < 2 THEN One
                            ELSE IF MaxOf(p) = 0 THEN Zero
                            ELSE Rat(MaxOf(p) - SecondOf(p), MaxOf(p))

\* C15 amended: with at least 2 options and top1 > 0 the confidence is
\* (top1 - top2)/top1 rounded to three decimals: a multiple of 0.001 that is
\* at most 0.0005 away from the quotient; the other two cases are as stated.
C15_RoundedQuotient ==
    \A i \in DOMAIN runs :
        \A q \in DOMAIN runs[i].rows :
            LET p == runs[i].rows[q].all_pixel_counts
                confidence == runs[i].confidence_scores[Str(q)]
                top1 == MaxOf(p)
                top2 == SecondOf(p)
            IN IF Len(p) < 2 THEN confidence = One
               ELSE IF top1 = 0 THEN confidence = Zero
               ELSE /\ 1000 % confidence[2] = 0
                    /\ 2000 * Abs(confidence[1] * top1 - (top1 - top2) * confidence[2])
                         <= confidence[2] * top1

\* a row of two options whose quotient, 1/3, is no multiple of 0.001
C15_Witness ==
    /\ Len(runs[1].rows) > 0
    /\ Len(runs[1].rows[1].all_pixel_counts) = 2
    /\ MaxOf(runs[1].rows[1].all_pixel_counts) = 3
    /\ SecondOf(runs[1].rows[1].all_pixel_counts) = 2
    /\ runs[1].confidence_scores[<<1>>] = Rat(333, 1000)

-----------------------------------------------------------------------------
(* Claims about the partition into rows (SpecGrid) *)

\* a and b hold the same shapes, each as often
SameShapes(a, b) ==
    /\ Len(a) = Len(b)
    /\ \A c \in Range(a) \cup Range(b) :
          Cardinality({k \in DOMAIN a : a[k] = c})
            = Cardinality({k \in DOMAIN b : b[k] = c})

\* C16: the shapes of a call, sorted top-to-bottom into S, are scored in
\* rows: row q is S[(q-1)*num_options + 1 .. q*num_options] (from 1),
\* re-ordered left-to-right; every row has num_options shapes; there are at
\* most min(num_questions, |S| // num_options) rows, so the slices do not
\* overlap and the shapes after the last row are in no row.
C16_RowPartition ==
    \A i \in DOMAIN runs :
        (Detected(runs[i]) /\ runs[i].err = "") =>
            LET r == runs[i]
                S == r.question_cnts
                n == r.num_options
                whole == Len(S) \div n
            IN /\ SameShapes(S, ChosenShapes(r))
               /\ \A a \in DOMAIN S : \A b \in DOMAIN S : a < b => S[a].y <= S[b].y
               /\ Len(r.rows) <= (IF r.num_questions < whole
                                  THEN r.num_questions ELSE whole)
               /\ r.pc = "done" => Len(r.rows) = (IF r.num_questions < whole
                                                  THEN r.num_questions ELSE whole)
               /\ \A q \in DOMAIN r.rows :
                     LET row == r.rows[q].cnts
                     IN /\ Len(row) = n
                        /\ SameShapes(row, [k \in 1..n |-> S[(q - 1) * n + k]])
                        /\ \A a \in 1..n : \A b \in 1..n :
                              a < b => row[a].x <= row[b].x
                        /\ r.rows[q].all_pixel_counts = [k \in 1..n |-> row[k].pix]

\* a call that scored two rows of two shapes, both sorts having moved shapes
C16_Witness ==
    /\ Succeeded(runs[1])
    /\ runs[1].num_options = 2
    /\ Len(runs[1].rows) = 2
    /\ runs[1].question_cnts # image[1].thresh
    /\ runs[1].rows[1].cnts # SubSeq(runs[1].question_cnts, 1, 2)
    /\ runs[1].rows[2].cnts # SubSeq(runs[1].question_cnts, 3, 4)

-----------------------------------------------------------------------------
(* Claims about the normalizer (Spec) *)

\* the call has resized the warped paper (lines 316-328)
Normalized(r) == "normalize" \in Range(r.stages)

\* C17: the warped paper of w x h pixels is resized by one scale factor
\* s >= 1 for both axes, and both sides of the resized paper are at least
\* 1200 pixels long.
C17_BothSidesReachMinimum ==
    \A i \in DOMAIN runs :
        Normalized(runs[i]) =>
            LET w == runs[i].doc_cnt[1].pw
                h == runs[i].doc_cnt[1].ph
                s == runs[i].paper.scale
            IN /\ s[1] >= s[2]
               /\ runs[i].paper.new_width = (w * s[1]) \div s[2]
               /\ runs[i].paper.new_height = (h * s[1]) \div s[2]
               /\ runs[i].paper.new_width >= 1200
               /\ runs[i].paper.new_height >= 1200

-----------------------------------------------------------------------------
(* Claims about unrelated invocations (SpecMix) *)

\* a result but for its processing time
Timeless(res) ==
    [responses |-> res.responses,
     image_dimensions |-> res.metadata.image_dimensions,
     bubbles_found |-> res.metadata.bubbles_found,
     bubbles_expected |-> res.metadata.bubbles_expected,
     questions_processed |-> res.metadata.questions_processed,
     confidence_scores |-> res.metadata.confidence_scores,
     min_pixel_threshold_used |-> res.metadata.min_pixel_threshold_used]

\* C18: however the stages of the invocations interleave, each invocation
\* ends as it would when run alone on its image bytes and parameters: with
\* the same error, or with the same result but for the processing time.
C18_AsWhenRunAlone ==
    \A i \in DOMAIN runs :
        runs[i].pc = "done" =>
            \E alone \in {process_omr_sheet(image[i], runs[i].num_questions,
                                             runs[i].num_options,
                                             runs[i].min_pixel_threshold)} :
                /\ runs[i].err = alone.err
                /\ IF alone.result = <<>>
                   THEN runs[i].result = <<>>
                   ELSE /\ runs[i].result # <<>>
                        /\ Timeless(runs[i].result[1]) = alone.result[1]

\* two invocations with different image bytes and different parameters that
\* both returned, with different answers
C18_Witness ==
    /\ BothDone
    /\ Succeeded(runs[1])
    /\ Succeeded(runs[2])
    /\ image[1] # image[2]
    /\ runs[1].num_questions # runs[2].num_questions
    /\ runs[1].num_options # runs[2].num_options
    /\ Answered(runs[1]) # {}
    /\ Answered(runs[2]) = {}

-----------------------------------------------------------------------------
(* Claims about the order of the stages (Spec) *)

\* the stages of a call that runs to its end with n rows
StageOrder(n) ==
    <<"decode", "locate", "normalize", "binarize", "detect">>
        \o [k \in 1..n |-> "score"]

\* the edge map of the photo has an outline with four vertices
HasQuad(i) == \E k \in DOMAIN image[i].sheet : image[i].sheet[k].verts = 4

\* C24: the stages run in order, each at most once but for the row loop, and
\* the first stage that fails ends the call: with valid parameters, bytes
\* that do not decode fail with the decode error after decoding alone; a
\* decodable image without a sheet outline fails with the sheet error after
\* decoding and sheet location alone; the insufficient-bubbles error comes
\* after the sheet was located and the shapes were detected, and before any
\* row is scored.
C24_StagesInOrder ==
    \A i \in DOMAIN runs :
        LET r == runs[i]
            valid == r.num_questions > 0 /\ r.num_options > 0
                        /\ r.min_pixel_threshold > 0
        IN /\ r.stages = SubSeq(StageOrder(Len(r.rows)), 1, Len(r.stages))
           /\ (r.pc = "done" /\ valid /\ ~image[i].decodable) =>
                 r.err = ErrDecode /\ r.stages = <<"decode">>
           /\ (r.pc = "done" /\ valid /\ image[i].decodable /\ ~HasQuad(i)) =>
                 r.err = ErrSheet /\ r.stages = <<"decode", "locate">>
           /\ r.err = ErrDecode => r.stages = <<"decode">>
           /\ r.err = ErrSheet => r.stages = <<"decode", "locate">>
           /\ r.err = ErrBubbles =>
                 /\ r.stages = StageOrder(0)
                 /\ r.doc_cnt # <<>>
                 /\ r.rows = <<>>
                 /\ r.responses = EmptyDict

\* a call on a decodable photo with a sheet outline and some shapes that
\* failed for its number of bubbles
C24_Witness ==
    /\ image[1].decodable
    /\ HasQuad(1)
    /\ image[1].thresh # <<>>
    /\ runs[1].pc = "done"
    /\ runs[1].err = ErrBubbles
    /\ runs[1].stages = StageOrder(0)

\* C28: a call that returns a result has questions_processed equal to
\* num_questions: it found at least num_questions * num_options bubbles, so
\* bubbles_found // num_options is at least num_questions, and each question
\* 1..num_questions has an answer.
C28_AllQuestionsAnswered ==
    \A i \in DOMAIN runs :
        Succeeded(runs[i]) =>
            LET r == runs[i]
                md == r.result[1].metadata
            IN /\ md.bubbles_found >= r.num_questions * r.num_options
               /\ md.bubbles_found \div r.num_options >= r.num_questions
               /\ md.questions_processed = r.num_questions
               /\ \A q \in 1..r.num_questions :
                     /\ Str(q) \in DOMAIN r.result[1].responses
                     /\ r.result[1].responses[Str(q)]
                          \in {"No Response"} \cup Range(OptionLetters)
               /\ Len(r.rows) = r.num_questions

\* a result for two questions, from as many bubbles as they need and no more
C28_Witness ==
    /\ Succeeded(runs[1])
    /\ runs[1].num_questions = 2
    /\ runs[1].found_bubbles = runs[1].num_questions * runs[1].num_options
    /\ runs[1].result[1].metadata.questions_processed = 2
    /\ DOMAIN runs[1].result[1].responses = Keys(2)

-----------------------------------------------------------------------------
(* The rate limiter (rate_limiter.py) and the middleware in front of every *)
(* endpoint (main.py).  A request is what the middleware reads of it: the  *)
(* X-Forwarded-For header as the list of its entries, the X-Real-IP        *)
(* header, the address of the peer (none: <<>>), the path, the             *)
(* Content-Length header (none: <<>>) and the form of an upload (none:     *)
(* <<>>).                                                                  *)

\* the values time.time() returns, in seconds
Instants == {0, 59, 60, 120, 3600}

MaxBodySize == 10 * 1024 * 1024

Requests ==
    {[forwarded_for |-> f, real_ip |-> r, client |-> c, path |-> p,
      content_length |-> n, upload |-> <<>>] :
        f \in {<<>>, <<"b", "a">>}, r \in {"", "a"}, c \in {<<>>, <<"a">>},
        p \in {"/", "/security/limits"},
        n \in {<<>>, <<MaxBodySize>>, <<MaxBodySize + 1>>}}

_get_client_ip(request) ==
    IF request.forwarded_for # <<>> THEN request.forwarded_for[1]
    ELSE IF request.real_ip # "" THEN request.real_ip
    ELSE IF request.client # <<>> THEN request.client[1]
    ELSE "unknown"

ClientIps == {_get_client_ip(request) : request \in Requests}

\* RateLimiter.__init__; a defaultdict(list) is a list for every key
NewRateLimiter == [minute_requests |-> [ip \in ClientIps |-> <<>>],
                   hour_requests |-> [ip \in ClientIps |-> <<>>]]

\* the list comprehensions of _cleanup_old_requests
Younger(req_times, current_time, age) ==
    FilterSeq(req_times, [k \in 1..Len(req_times) |->
                             current_time - req_times[k] < age])

_cleanup_old_requests(rl, client_ip, current_time) ==
    [minute_requests |-> [rl.minute_requests EXCEPT
                             ![client_ip] = Younger(@, current_time, 60)],
     hour_requests |-> [rl.hour_requests EXCEPT
                           ![client_ip] = Younger(@, current_time, 3600)]]

\* is_allowed: current_time is what time.time() returns at line 52,
\* cleanup_time what it returns at line 35, later in the same call
is_allowed(rl, request, current_time, cleanup_time) ==
    LET client_ip == _get_client_ip(request)
        cleaned == _cleanup_old_requests(rl, client_ip, cleanup_time)
        minute_requests == [cleaned.minute_requests EXCEPT
                               ![client_ip] = Append(@, current_time)]
        hour_requests == [cleaned.hour_requests EXCEPT
                             ![client_ip] = Append(@, current_time)]
        minute_count == Len(minute_requests[client_ip])
        hour_count == Len(hour_requests[client_ip])
    IN [rate_limiter |-> [minute_requests |-> minute_requests,
                          hour_requests |-> hour_requests],
        is_allowed |-> minute_count <= requests_per_minute
                         /\ hour_count <= requests_per_hour,
        limits_info |-> [minute_requests |-> minute_count,
                         minute_limit |-> requests_per_minute,
                         hour_requests |-> hour_count,
                         hour_limit |-> requests_per_hour]]

\* time passes between two calls: the clock moves on to a later one of the
\* instants
Tick(instants) ==
    /\ \E t \in instants : t > app.now /\ app' = [app EXCEPT !.now = t]
    /\ UNCHANGED <<image, runs, ps, ms>>

-----------------------------------------------------------------------------
(* The result store (result_store.py).  Times are in seconds; an id is the *)
(* number of the uuid4() call that made it.                                *)

\* the values datetime.now() returns
StoreInstants == {0, 86400, 86401}

expiration_hours == 24

\* timedelta(hours=hours), in seconds
timedelta(hours) == hours * 3600

\* what callers store
ResultData == {"x", "y"}

\* ResultStore.__init__
NewResultStore == [results |-> EmptyDict, uuids |-> 0]

\* every method appends what it was called with, when it returned and what
\* it returned to app.calls
Called(op, result_id, at, returned) ==
    [op |-> op, result_id |-> result_id, at |-> at, returned |-> returned]

\* store_result on the store rs: the store it leaves and the id it
\* returns; first_now and second_now are what datetime.now() returns at
\* line 22 and at line 23
StoreResult(rs, result_data, first_now, second_now) ==
    LET result_id == rs.uuids + 1
    IN [result_store |->
            [results |-> DictSet(rs.results, result_id,
                                 [data |-> result_data,
                                  created_at |-> first_now,
                                  expires_at |-> second_now
                                                   + timedelta(expiration_hours)]),
             uuids |-> result_id],
        result_id |-> result_id]

\* a call of store_result
store_result ==
    /\ Len(app.calls) < MaxCalls
    /\ app.result_store.uuids < MaxStored
    /\ \E result_data \in ResultData, later \in {t \in StoreInstants : t >= app.now} :
         LET stored == StoreResult(app.result_store, result_data, app.now, later)
         IN app' = [app EXCEPT
                      !.now = later,
                      !.result_store = stored.result_store,
                      !.calls = Append(@, Called("store_result", stored.result_id,
                                                 later, <<result_data>>))]
    /\ UNCHANGED <<image, runs, ps, ms>>

\* del self.results[result_id]
DictDel(d, key) == [k \in (DOMAIN d) \ {key} |-> d[k]]

\* get_result with the expired entry left in the store
get_result_keeping ==
    /\ Len(app.calls) < MaxCalls
    /\ \E result_id \in 1..MaxStored :
         LET results == app.result_store.results
             missing == result_id \notin DOMAIN results
             expired == ~missing /\ app.now > results[result_id].expires_at
             returned == IF missing \/ expired THEN <<>>
                         ELSE <<results[result_id].data>>
         IN app' = [app EXCEPT
                      !.calls = Append(@, Called("get_result", result_id,
                                                 app.now, returned))]
    /\ UNCHANGED <<image, runs, ps, ms>>

\* get_result; None is <<>>, data is <<data>>
get_result ==
    /\ Len(app.calls) < MaxCalls
    /\ \E result_id \in 1..MaxStored :
         LET results == app.result_store.results
             missing == result_id \notin DOMAIN results
             expired == ~missing /\ app.now > results[result_id].expires_at
             returned == IF missing \/ expired THEN <<>>
                         ELSE <<results[result_id].data>>
         IN app' = [app EXCEPT
                      !.result_store.results =
                          IF expired THEN DictDel(@, result_id) ELSE @,
                      !.calls = Append(@, Called("get_result", result_id,
                                                 app.now, returned))]
    /\ UNCHANGED <<image, runs, ps, ms>>

delete_result ==
    /\ Len(app.calls) < MaxCalls
    /\ \E result_id \in 1..MaxStored :
         LET found == result_id \in DOMAIN app.result_store.results
         IN app' = [app EXCEPT
                      !.result_store.results =
                          IF found THEN DictDel(@, result_id) ELSE @,
                      !.calls = Append(@, Called("delete_result", result_id,
                                                 app.now, found))]
    /\ UNCHANGED <<image, runs, ps, ms>>

cleanup_expired ==
    /\ Len(app.calls) < MaxCalls
    /\ LET results == app.result_store.results
           expired_ids == {result_id \in DOMAIN results :
                              app.now > results[result_id].expires_at}
       IN app' = [app EXCEPT
                    !.result_store.results =
                        [k \in (DOMAIN @) \ expired_ids |-> @[k]],
                    !.calls = Append(@, Called("cleanup_expired", 0, app.now,
                                               Cardinality(expired_ids)))]
    /\ UNCHANGED <<image, runs, ps, ms>>

\* get_stats: the dict it returns, without expiration_hours
get_stats ==
    /\ Len(app.calls) < MaxCalls
    /\ LET results == app.result_store.results
           current_time == app.now
           active_results == Cardinality(DOMAIN results)
           expired_results == Cardinality({result_id \in DOMAIN results :
                                 current_time > results[result_id].expires_at})
       IN app' = [app EXCEPT
                    !.calls = Append(@, Called("get_stats", 0, app.now,
                                  [total_results |-> active_results + expired_results,
                                   active_results |-> active_results,
                                   expired_results |-> expired_results]))]
    /\ UNCHANGED <<image, runs, ps, ms>>

InitStore ==
    /\ app = [now |-> 0, result_store |-> NewResultStore, calls |-> <<>>]
    /\ image = NoImage
    /\ runs = NoRuns
    /\ ps = PsIdle
    /\ ms = MsIdle

NextStore ==
    \/ store_result
    \/ get_result
    \/ delete_result
    \/ cleanup_expired
    \/ get_stats
    \/ Tick(StoreInstants)

SpecStore == InitStore /\ [][NextStore]_vars

-----------------------------------------------------------------------------
(* Claims about the result store (SpecStore) *)

\* the calls before call k that stored, or deleted, result_id
StoresOf(result_id, k) ==
    {j \in 1..(k - 1) : /\ app.calls[j].op = "store_result"
                        /\ app.calls[j].result_id = result_id}

DeletesOf(result_id, k) ==
    {j \in 1..(k - 1) : /\ app.calls[j].op = "delete_result"
                        /\ app.calls[j].result_id = result_id}

\* call k is a get_result of an id that was stored before, 24 hours or less
\* before call k, and not deleted since
Retrievable(k) ==
    /\ app.calls[k].op = "get_result"
    /\ \E j \in StoresOf(app.calls[k].result_id, k) :
          /\ app.calls[k].at <= app.calls[j].at + 24 * 3600
          /\ \A d \in DeletesOf(app.calls[k].result_id, k) : d < j

\* C20: get_result(id) returns the data of the store_result call that
\* returned id exactly when id was stored, has not been deleted, and the 24
\* hours since it was stored have not passed; otherwise it returns None; an
\* id whose get_result came after its 24 hours is no longer in the store.
C20_GetResult ==
    \A k \in DOMAIN app.calls :
        app.calls[k].op = "get_result" =>
            /\ Retrievable(k) =>
                  \E j \in StoresOf(app.calls[k].result_id, k) :
                     app.calls[k].returned = app.calls[j].returned
            /\ ~Retrievable(k) => app.calls[k].returned = <<>>
            /\ (\E j \in StoresOf(app.calls[k].result_id, k) :
                    app.calls[k].at > app.calls[j].at + 24 * 3600)
                  => app.calls[k].result_id \notin DOMAIN app.result_store.results

\* a result that was returned within its 24 hours, and not after them
C20_Witness ==
    \E k \in DOMAIN app.calls : \E m \in DOMAIN app.calls :
        /\ k < m
        /\ app.calls[k].op = "get_result"
        /\ app.calls[m].op = "get_result"
        /\ app.calls[k].result_id = app.calls[m].result_id
        /\ app.calls[k].returned # <<>>
        /\ app.calls[k].at = app.calls[m].at - 1
        /\ app.calls[m].returned = <<>>
        /\ DeletesOf(app.calls[m].result_id, m) = {}

\* the entries the store holds whose expiration has passed at time now
HeldExpired(store, now) ==
    {result_id \in DOMAIN store.results : now > store.results[result_id].expires_at}

\* C26: whatever state the store is in, get_stats returns total_results
\* equal to the number of entries held, expired_results equal to the number
\* of held entries whose expiration has passed, active_results equal to the
\* number of held entries that have not expired, and
\* total_results = active_results + expired_results.
C26_GetStats ==
    [][(/\ Len(app'.calls) = Len(app.calls) + 1
        /\ app'.calls[Len(app'.calls)].op = "get_stats") =>
          LET stats == app'.calls[Len(app'.calls)].returned
              held == Cardinality(DOMAIN app.result_store.results)
              expired == Cardinality(HeldExpired(app.result_store, app.now))
          IN /\ stats.total_results = held
             /\ stats.expired_results = expired
             /\ stats.active_results = held - expired
             /\ stats.total_results = stats.active_results + stats.expired_results
       ]_vars

-----------------------------------------------------------------------------
(* The performance monitor (monitoring.py).  Response times are whole      *)
(* numbers of clock units.                                                 *)

Endpoints == {"/", "/security/limits", "/process_omr"}

\* PerformanceMonitor.__init__; _lock is the thread that holds the lock, 0
\* when it is free
NewPerformanceMonitor ==
    [request_count |-> 0, error_count |-> 0, success_count |-> 0,
     response_times |-> <<>>,
     endpoint_times |-> [endpoint \in Endpoints |-> <<>>],
     files_processed |-> 0, total_processing_time |-> 0,
     avg_processing_time |-> Zero,
     system_metrics |-> <<>>,
     _lock |-> 0]

\* deque(maxlen=maxlen).append(x)
DequeAppend(d, x, maxlen) ==
    IF Len(d) < maxlen THEN Append(d, x) ELSE Append(Tail(d), x)

\* line 83
IsSuccess(status_code) == 200 <= status_code /\ status_code < 400

\* record_request, run in one piece by the thread that has the lock
record_request(pm, endpoint, status_code, response_time) ==
    [pm EXCEPT !.request_count = @ + 1,
               !.success_count = IF IsSuccess(status_code) THEN @ + 1 ELSE @,
               !.error_count = IF IsSuccess(status_code) THEN @ ELSE @ + 1,
               !.response_times = DequeAppend(@, response_time, max_history),
               !.endpoint_times[endpoint] =
                   DequeAppend(@, response_time, max_history)]

\* record_file_processing that counts the file before and after the pipeline
record_file_processing_twice(pm, processing_time) ==
    [pm EXCEPT !.files_processed = @ + 2,
               !.total_processing_time = @ + processing_time,
               !.avg_processing_time =
                   Rat(pm.total_processing_time + processing_time,
                       pm.files_processed + 2)]

\* record_file_processing, run in one piece by the thread that has the lock
record_file_processing(pm, processing_time) ==
    [pm EXCEPT !.files_processed = @ + 1,
               !.total_processing_time = @ + processing_time,
               !.avg_processing_time =
                   Rat(pm.total_processing_time + processing_time,
                       pm.files_processed + 1)]

-----------------------------------------------------------------------------
(* Threads that call record_request at the same time, one bytecode-level   *)
(* step of the call per step: self.request_count += 1 is a read followed   *)
(* by a write                                                              *)

StatusCodes == {199, 200, 399, 400}

Threads == 1..MaxThreads

\* overlapped: another thread was inside record_request during this call
ThreadIdle == [pc |-> "idle", endpoint |-> "/", status_code |-> 0,
               response_time |-> 0, loaded |-> 0, overlapped |-> FALSE]

\* a thread enters record_request
BeginRecord(t) ==
    /\ app.threads[t].pc = "idle"
    /\ app.started < MaxRecorded
    /\ \E status_code \in StatusCodes, endpoint \in {"/", "/process_omr"} :
          app' = [app EXCEPT
                    !.started = @ + 1,
                    !.threads = [u \in Threads |->
                        IF u = t
                        THEN [pc |-> "acquire", endpoint |-> endpoint,
                              status_code |-> status_code, response_time |-> 1,
                              loaded |-> 0,
                              overlapped |-> \E v \in Threads \ {t} :
                                                app.threads[v].pc # "idle"]
                        ELSE IF app.threads[u].pc # "idle"
                        THEN [app.threads[u] EXCEPT !.overlapped = TRUE]
                        ELSE app.threads[u]]]
    /\ UNCHANGED <<image, runs, ps, ms>>

\* line 80 without the lock: the thread goes on whoever holds it
Acquire_nolock(t) ==
    /\ app.threads[t].pc = "acquire"
    /\ app' = [app EXCEPT !.threads[t].pc = "load_count"]
    /\ UNCHANGED <<image, runs, ps, ms>>

\* line 80: with self._lock
Acquire(t) ==
    /\ app.threads[t].pc = "acquire"
    /\ app.performance_monitor._lock = 0
    /\ app' = [app EXCEPT !.performance_monitor._lock = t,
                          !.threads[t].pc = "load_count"]
    /\ UNCHANGED <<image, runs, ps, ms>>

\* line 81, the read
LoadCount(t) ==
    /\ app.threads[t].pc = "load_count"
    /\ app' = [app EXCEPT !.threads[t].loaded = app.performance_monitor.request_count,
                          !.threads[t].pc = "store_count"]
    /\ UNCHANGED <<image, runs, ps, ms>>

\* line 81, the write
StoreCount(t) ==
    /\ app.threads[t].pc = "store_count"
    /\ app' = [app EXCEPT !.performance_monitor.request_count =
                              app.threads[t].loaded + 1,
                          !.threads[t].pc = "load_outcome"]
    /\ UNCHANGED <<image, runs, ps, ms>>

\* lines 83-86, the read
LoadOutcome(t) ==
    /\ app.threads[t].pc = "load_outcome"
    /\ app' = [app EXCEPT !.threads[t].loaded =
                              IF IsSuccess(app.threads[t].status_code)
                              THEN app.performance_monitor.success_count
                              ELSE app.performance_monitor.error_count,
                          !.threads[t].pc = "store_outcome"]
    /\ UNCHANGED <<image, runs, ps, ms>>

\* lines 83-86, the write
StoreOutcome(t) ==
    /\ app.threads[t].pc = "store_outcome"
    /\ app' = [app EXCEPT !.performance_monitor.success_count =
                              IF IsSuccess(app.threads[t].status_code)
                              THEN app.threads[t].loaded + 1 ELSE @,
                          !.performance_monitor.error_count =
                              IF IsSuccess(app.threads[t].status_code)
                              THEN @ ELSE app.threads[t].loaded + 1,
                          !.threads[t].pc = "append"]
    /\ UNCHANGED <<image, runs, ps, ms>>

\* lines 89-90 and the end of the with block: the lock is released if this
\* thread holds it, and the call returns
FinishRecord(t) ==
    LET th == app.threads[t]
    IN /\ th.pc = "append"
       /\ app' = [app EXCEPT
                    !.performance_monitor.response_times =
                        DequeAppend(@, th.response_time, max_history),
                    !.performance_monitor.endpoint_times[th.endpoint] =
                        DequeAppend(@, th.response_time, max_history),
                    !.performance_monitor._lock = IF @ = t THEN 0 ELSE @,
                    !.threads[t] = ThreadIdle,
                    !.completed = Append(@, [status_code |-> th.status_code,
                                             overlapped |-> th.overlapped])]
       /\ UNCHANGED <<image, runs, ps, ms>>

InitMonitor ==
    /\ app = [now |-> 0, performance_monitor |-> NewPerformanceMonitor,
              threads |-> [t \in Threads |-> ThreadIdle],
              started |-> 0, completed |-> <<>>]
    /\ image = NoImage
    /\ runs = NoRuns
    /\ ps = PsIdle
    /\ ms = MsIdle

NextMonitor ==
    \/ \E t \in Threads : BeginRecord(t)
    \/ \E t \in Threads : Acquire(t)
    \/ \E t \in Threads : LoadCount(t)
    \/ \E t \in Threads : StoreCount(t)
    \/ \E t \in Threads : LoadOutcome(t)
    \/ \E t \in Threads : StoreOutcome(t)
    \/ \E t \in Threads : FinishRecord(t)

SpecMonitor == InitMonitor /\ [][NextMonitor]_vars

-----------------------------------------------------------------------------
(* Claims about record_request (SpecMonitor) *)

\* no call of record_request is under way
Quiescent == \A t \in Threads : app.threads[t].pc = "idle"

\* the completed calls whose status code is in [200, 400)
CompletedOk == {k \in DOMAIN app.completed :
                   /\ 200 <= app.completed[k].status_code
                   /\ app.completed[k].status_code < 400}

\* C27: whenever no call of record_request is under way, however the calls
\* of the threads were interleaved, request_count is the number of completed
\* calls and equals success_count + error_count, success_count is the number
\* of completed calls with 200 <= status_code < 400 and error_count the
\* number of the others.
C27_CountersConsistent ==
    Quiescent =>
        LET pm == app.performance_monitor
        IN /\ pm.request_count = Len(app.completed)
           /\ pm.request_count = pm.success_count + pm.error_count
           /\ pm.success_count = Cardinality(CompletedOk)
           /\ pm.error_count = Len(app.completed) - Cardinality(CompletedOk)

\* three calls are complete, each of them ran while another thread was
\* inside record_request, and the status codes 399 and 400 both occurred
C27_Witness ==
    /\ Quiescent
    /\ Len(app.completed) = 3
    /\ \A k \in DOMAIN app.completed : app.completed[k].overlapped
    /\ \E k \in DOMAIN app.completed : app.completed[k].status_code = 399
    /\ \E k \in DOMAIN app.completed : app.completed[k].status_code = 400
    /\ app.performance_monitor.success_count > 0
    /\ app.performance_monitor.error_count > 0

-----------------------------------------------------------------------------
(* The health status (monitoring.py): requests are recorded, the           *)
(* background thread samples the system, get_health_status is called.      *)
(* Every method runs under the lock, hence in one piece.                   *)

RatMul(a, b) == Rat(a[1] * b[1], a[2] * b[2])

\* what psutil reports: usage at a threshold and just above it, in percent
SystemSamples ==
    {[cpu_percent |-> c, memory_percent |-> m, disk_percent |-> d] :
        c \in {80, 81}, m \in {85, 86}, d \in {90, 91}}

\* get_metrics, without the times of day, the response-time statistics and
\* the per-endpoint statistics; system is {} (<<>>) or the latest sample
get_metrics(pm) ==
    [requests |->
        [total |-> pm.request_count,
         success |-> pm.success_count,
         errors |-> pm.error_count,
         success_rate |-> IF pm.request_count > 0
                          THEN RatMul(Rat(pm.success_count, pm.request_count),
                                      Rat(100, 1))
                          ELSE Zero],
     file_processing |->
        [files_processed |-> pm.files_processed,
         total_processing_time |-> pm.total_processing_time,
         avg_processing_time |-> pm.avg_processing_time],
     system |-> IF pm.system_metrics # <<>>
                THEN <<pm.system_metrics[Len(pm.system_metrics)]>>
                ELSE <<>>]

cpu_threshold == 80
memory_threshold == 85
disk_threshold == 90
error_rate_threshold == 10

\* system.get(key, 0)
SystemGet(system, key) == IF system = <<>> THEN 0 ELSE system[1][key]

\* lines 147-185: status and issues of the dict get_health_status returns
HealthStatus(pm) ==
    LET metrics == get_metrics(pm)
        cpu_percent == SystemGet(metrics.system, "cpu_percent")
        memory_percent == SystemGet(metrics.system, "memory_percent")
        disk_percent == SystemGet(metrics.system, "disk_percent")
        error_rate == metrics.requests.success_rate
        health_issues ==
            (IF cpu_percent > cpu_threshold
             THEN <<[issue |-> "High CPU usage", value |-> Rat(cpu_percent, 1)]>>
             ELSE <<>>)
            \o (IF memory_percent > memory_threshold
                THEN <<[issue |-> "High memory usage",
                        value |-> Rat(memory_percent, 1)]>>
                ELSE <<>>)
            \o (IF disk_percent > disk_threshold
                THEN <<[issue |-> "High disk usage", value |-> Rat(disk_percent, 1)]>>
                ELSE <<>>)
            \o (IF RatLT(error_rate, Rat(100 - error_rate_threshold, 1))
                THEN <<[issue |-> "High error rate",
                        value |-> RatSub(Rat(100, 1), error_rate)]>>
                ELSE <<>>)
    IN [status |-> IF health_issues = <<>> THEN "healthy" ELSE "degraded",
        issues |-> health_issues]

\* the middleware records a request that was answered
RequestRecorded ==
    /\ app.performance_monitor.request_count < MaxHealthRequests
    /\ \E status_code \in {200, 500} :
          app' = [app EXCEPT !.performance_monitor =
                                 record_request(@, "/", status_code, 1)]
    /\ UNCHANGED <<image, runs, ps, ms>>

\* _collect_system_metrics, without the fields get_health_status ignores
_collect_system_metrics ==
    /\ \E metrics \in SystemSamples :
          app' = [app EXCEPT !.performance_monitor.system_metrics =
                                 DequeAppend(@, metrics, max_history)]
    /\ UNCHANGED <<image, runs, ps, ms>>

get_health_status ==
    /\ Len(app.calls) < MaxHealthCalls
    /\ app' = [app EXCEPT !.calls = Append(@, Called("get_health_status", 0, app.now,
                                               HealthStatus(app.performance_monitor)))]
    /\ UNCHANGED <<image, runs, ps, ms>>

InitHealth ==
    /\ app = [now |-> 0, performance_monitor |-> NewPerformanceMonitor,
              calls |-> <<>>]
    /\ image = NoImage
    /\ runs = NoRuns
    /\ ps = PsIdle
    /\ ms = MsIdle

NextHealth == RequestRecorded \/ _collect_system_metrics \/ get_health_status

SpecHealth == InitHealth /\ [][NextHealth]_vars

-----------------------------------------------------------------------------
(* Claims about get_health_status (SpecHealth) *)

\* the latest sample of the system metrics shows the usage named key at or
\* below limit; without a sample nothing is known to be above it
UsageWithin(pm, key, limit) ==
    pm.system_metrics # <<>> => pm.system_metrics[Len(pm.system_metrics)][key] <= limit

\* CPU, memory and disk usage are at or below 80, 85 and 90 percent and at
\* most 10 percent of the recorded requests are errors (none of none is)
WithinThresholds(pm) ==
    /\ UsageWithin(pm, "cpu_percent", 80)
    /\ UsageWithin(pm, "memory_percent", 85)
    /\ UsageWithin(pm, "disk_percent", 90)
    /\ pm.error_count * 100 <= 10 * pm.request_count

\* C22: get_health_status reports "healthy" with no issues whenever CPU,
\* memory and disk usage are at or below their thresholds and at most 10% of
\* the recorded requests are errors, also when no request has been recorded;
\* it reports "degraded" only when one of the thresholds is exceeded.
C22_HealthStatus ==
    [][(/\ Len(app'.calls) = Len(app.calls) + 1
        /\ app'.calls[Len(app'.calls)].op = "get_health_status") =>
          LET health == app'.calls[Len(app'.calls)].returned
          IN /\ WithinThresholds(app.performance_monitor) =>
                   health.status = "healthy" /\ health.issues = <<>>
             /\ health.status = "degraded" =>
                   ~WithinThresholds(app.performance_monitor)
       ]_vars

-----------------------------------------------------------------------------
(* The application (main.py): the middleware in front of every endpoint    *)
(* and the handlers behind it.  A handler reads the clock at the instant   *)
(* at which the middleware calls it.                                       *)

\* security.check_request_size
check_request_size(content_length) == content_length <= MaxBodySize

\* security.validate_filename: the first pattern of lines 24-31 matches
\* "sheet.exe", line 60 finds ".." and "/" in "../sheet.png"
validate_filename(filename) ==
    IF filename = "" THEN FALSE
    ELSE IF filename \in {"sheet.exe"} THEN FALSE
    ELSE IF filename \in {"../sheet.png"} THEN FALSE
    ELSE TRUE

\* security.validate_content_type; lower is str.lower()
validate_content_type(content_type) ==
    LET lower == IF content_type = "IMAGE/PNG" THEN "image/png" ELSE content_type
    IN lower \in {"image/jpeg", "image/jpg", "image/png", "image/bmp",
                  "multipart/form-data"}

\* an uploaded file: its length in bytes, the type python-magic reports for
\* it, whether it starts with the signature of a JPEG, PNG or BMP file,
\* whether PIL verifies it, and what cv2.imdecode makes of it
File(size, file_type, signature, verifies, decoded) ==
    [size |-> size, file_type |-> file_type, signature |-> signature,
     verifies |-> verifies, image |-> decoded]

_validate_file_signature(file_bytes) ==
    IF file_bytes.size < 4 THEN FALSE ELSE file_bytes.signature

\* validate_image_file; magic_available is MAGIC_AVAILABLE (lines 11-16)
validate_image_file(file_bytes, magic_available) ==
    LET refused(error_message) == [is_valid |-> FALSE, error_message |-> error_message]
    IN IF file_bytes.size > 10 * 1024 * 1024
       THEN refused("File size exceeds maximum allowed size")
       ELSE IF magic_available
               /\ file_bytes.file_type
                     \notin {"image/jpeg", "image/jpg", "image/png", "image/bmp"}
       THEN refused("Unsupported file type")
       ELSE IF ~magic_available /\ ~_validate_file_signature(file_bytes)
       THEN refused("Unsupported file type. Allowed types: JPG, PNG, BMP")
       ELSE IF ~file_bytes.verifies THEN refused("Invalid image file")
       ELSE [is_valid |-> TRUE, error_message |-> ""]

\* the form of a POST /process_omr for one question with two options
Form(filename, content_type, file, num_questions) ==
    [filename |-> filename, content_type |-> content_type, file |-> file,
     num_questions |-> num_questions, num_options |-> 2,
     min_pixel_threshold |-> MaxThreshold]

GoodFile ==
    File(1024, "image/png", TRUE, TRUE,
         Image(TRUE, OneSheet, <<Contour(1, 0, 10, 10, 0),
                                 Contour(0, 0, 10, 10, MaxThreshold + 1)>>))

\* forms that differ from a good one in the photo (bytes OpenCV cannot
\* decode, a photo without a sheet, a sheet with one bubble, a sheet with two
\* bubbles side by side, the left one filled), in the file name (none,
\* harmless, with an extension of line 25, with a path), in the content
\* type, in the file (too long, not an image, damaged) or in num_questions
UploadForms ==
    {Form("sheet.png", "image/png", [GoodFile EXCEPT !.image = img], 1) :
        img \in {Undecodable,
                 Image(TRUE, <<>>, <<>>),
                 Image(TRUE, OneSheet, <<Contour(0, 0, 10, 10, MaxThreshold + 1)>>),
                 Image(TRUE, OneSheet, <<Contour(1, 0, 10, 10, 0),
                                         Contour(0, 0, 10, 10, MaxThreshold + 1)>>)}}
    \cup {Form(filename, "image/png", GoodFile, 1) :
            filename \in {"", "sheet.png", "sheet.exe", "../sheet.png"}}
    \cup {Form("sheet.png", content_type, GoodFile, 1) :
            content_type \in {"image/png", "IMAGE/PNG", "application/pdf"}}
    \cup {Form("sheet.png", "image/png", file, 1) :
            file \in {[GoodFile EXCEPT !.size = MaxBodySize + 1],
                      [GoodFile EXCEPT !.file_type = "application/pdf",
                                       !.signature = FALSE],
                      [GoodFile EXCEPT !.verifies = FALSE]}}
    \cup {Form("sheet.png", "image/png", GoodFile, 0)}

\* the POST /process_omr requests: every form from a client with an address,
\* a good form from one without, a good form announced as too long
Uploads ==
    {[forwarded_for |-> <<>>, real_ip |-> "", client |-> <<"a">>,
      path |-> "/process_omr", content_length |-> <<>>, upload |-> <<form>>] :
        form \in UploadForms}
    \cup {[forwarded_for |-> <<>>, real_ip |-> "", client |-> <<>>,
           path |-> "/process_omr", content_length |-> <<>>,
           upload |-> <<Form("sheet.png", "image/png", GoodFile, 1)>>],
          [forwarded_for |-> <<>>, real_ip |-> "", client |-> <<"a">>,
           path |-> "/process_omr", content_length |-> <<MaxBodySize + 1>>,
           upload |-> <<Form("sheet.png", "image/png", GoodFile, 1)>>]}

\* line 283: what process_omr_sheet does with each form
PipelineRuns ==
    [form \in UploadForms |->
        process_omr_sheet(form.file.image, form.num_questions, form.num_options,
                          form.min_pixel_threshold)]

\* an exception, as the classes it is an instance of and, for an
\* HTTPException, its status code
HTTPException(status_code) ==
    [is_a |-> {"HTTPException", "Exception"}, status_code |-> status_code]

OMRProcessingError ==
    [is_a |-> {"OMRProcessingError", "Exception"}, status_code |-> 0]

\* what a handler leaves behind: the response and the three global objects
Response(status_code, body, st) ==
    [status_code |-> status_code, body |-> body,
     rate_limiter |-> st.rate_limiter, result_store |-> st.result_store,
     performance_monitor |-> st.performance_monitor]

\* GET /
root(st) == Response(200, <<>>, st)

\* GET /security/limits
get_rate_limits(st, request, now) ==
    LET client_ip == IF request.client # <<>> THEN request.client[1] ELSE "unknown"
        checked == is_allowed(st.rate_limiter, request, now, now)
    IN Response(200,
                <<[client_ip |-> client_ip,
                   rate_limit_status |-> IF checked.is_allowed THEN "allowed"
                                         ELSE "exceeded",
                   limits |-> checked.limits_info]>>,
                [st EXCEPT !.rate_limiter = checked.rate_limiter])

\* lines 522-533, from the result without its processing time
WithProcessingTime(result, processing_time) ==
    [responses |-> result.responses,
     metadata |-> [processing_time_seconds |-> processing_time,
                   image_dimensions |-> result.image_dimensions,
                   bubbles_found |-> result.bubbles_found,
                   bubbles_expected |-> result.bubbles_expected,
                   questions_processed |-> result.questions_processed,
                   confidence_scores |-> result.confidence_scores,
                   min_pixel_threshold_used |-> result.min_pixel_threshold_used]]

\* the try block of process_omr, lines 254-312: the exception it raises
\* (none: <<>>), the body it returns, and the store and the monitor it leaves
TryProcessOmr(st, form, magic_available, now, processing_time) ==
    LET raises(exception) == [raised |-> <<exception>>, body |-> <<>>,
                              result_store |-> st.result_store,
                              performance_monitor |-> st.performance_monitor]
        \* lines 292-312
        returns(result, stored) ==
            [raised |-> <<>>,
             body |-> <<[status |-> "success", result_id |-> stored.result_id,
                         filename |-> form.filename, timestamp |-> now,
                         responses |-> result.responses,
                         metadata |-> result.metadata]>>,
             result_store |-> stored.result_store,
             performance_monitor |->
                 record_file_processing(st.performance_monitor, processing_time)]
        stores(result) ==
            returns(result,
                    StoreResult(st.result_store,
                                [filename |-> form.filename, timestamp |-> now,
                                 responses |-> result.responses,
                                 metadata |-> result.metadata],
                                now, now))
        \* lines 283-289
        processes(ran) ==
            IF ran.err # "" THEN raises(OMRProcessingError)
            ELSE stores(WithProcessingTime(ran.result[1], processing_time))
    IN IF ~validate_filename(form.filename) THEN raises(HTTPException(400))
       ELSE IF ~validate_content_type(form.content_type) THEN raises(HTTPException(400))
       ELSE IF ~validate_image_file(form.file, magic_available).is_valid
       THEN raises(HTTPException(400))
       ELSE processes(PipelineRuns[form])

\* POST /process_omr: the try block and the except clauses of lines 314-324,
\* tried in order; each raises an HTTPException, which http_exception_handler
\* turns into a response with its status code.  An HTTPException raised in
\* the try block is an Exception and is caught by the clause of line 322.
process_omr(st, form, magic_available, now, processing_time) ==
    LET after(tried) == [st EXCEPT !.result_store = tried.result_store,
                                   !.performance_monitor = tried.performance_monitor]
        caught(tried) ==
            IF tried.raised = <<>> THEN Response(200, tried.body, after(tried))
            ELSE IF "FileValidationError" \in tried.raised[1].is_a
            THEN Response(400, <<>>, after(tried))
            ELSE IF "OMRProcessingError" \in tried.raised[1].is_a
            THEN Response(422, <<>>, after(tried))
            ELSE Response(500, <<>>, after(tried))
    IN caught(TryProcessOmr(st, form, magic_available, now, processing_time))

\* FastAPI behind the middleware: it picks the handler of the path and, for
\* POST /process_omr, refuses a form field that is not above 0 with 422
\* before the handler runs (gt=0, lines 223-225)
call_next(st, request, magic_available, now, processing_time) ==
    IF request.path = "/security/limits" THEN get_rate_limits(st, request, now)
    ELSE IF request.path = "/process_omr"
    THEN IF \/ request.upload[1].num_questions <= 0
            \/ request.upload[1].num_options <= 0
            \/ request.upload[1].min_pixel_threshold <= 0
         THEN Response(422, <<>>, st)
         ELSE process_omr(st, request.upload[1], magic_available, now,
                          processing_time)
    ELSE root(st)

\* the middleware log_requests_and_security, with the handler it calls.
\* request.client.host raises AttributeError when the request has no peer
\* address (lines 85, 99, 113); that is answered with 500.  Only a request
\* that went through call_next is recorded by the monitor.
log_requests_and_security(requests, instants) ==
    /\ Len(app.log) < MaxRequests
    /\ \E request \in requests, later \in {t \in instants : t >= app.now} :
         \E processing_time \in IF request.upload # <<>> THEN 0..MaxElapsed ELSE {0} :
         \E checked \in {is_allowed(app.rate_limiter, request, app.now, later)} :
            LET no_client == request.client = <<>>
                too_large == /\ request.content_length # <<>>
                             /\ ~check_request_size(request.content_length[1])
                reached == checked.is_allowed /\ ~too_large /\ ~no_client
                st == [rate_limiter |-> checked.rate_limiter,
                       result_store |-> app.result_store,
                       performance_monitor |-> app.performance_monitor]
                early == Response(IF no_client THEN 500
                                  ELSE IF ~checked.is_allowed THEN 429
                                  ELSE 413, <<>>, st)
            IN \E response \in {IF reached
                                THEN call_next(st, request, app.magic_available,
                                               later, processing_time)
                                ELSE early} :
                  app' = [app EXCEPT
                            !.now = later,
                            !.rate_limiter = response.rate_limiter,
                            !.result_store = response.result_store,
                            !.performance_monitor =
                                IF reached
                                THEN record_request(response.performance_monitor,
                                                    request.path,
                                                    response.status_code,
                                                    later - app.now)
                                ELSE response.performance_monitor,
                            !.log = Append(@, [path |-> request.path,
                                               upload |-> request.upload,
                                               client_ip |-> _get_client_ip(request),
                                               at |-> app.now,
                                               answered_at |-> later,
                                               is_allowed |-> checked.is_allowed,
                                               status_code |-> response.status_code,
                                               reached_handler |-> reached,
                                               body |-> response.body])]
    /\ UNCHANGED <<image, runs, ps, ms>>

\* the application after start-up; python-magic is installed or not
InitApp(installed) ==
    /\ \E magic_available \in installed :
          app = [now |-> 0, magic_available |-> magic_available,
                 rate_limiter |-> NewRateLimiter,
                 result_store |-> NewResultStore,
                 performance_monitor |-> NewPerformanceMonitor,
                 log |-> <<>>]
    /\ image = NoImage
    /\ runs = NoRuns
    /\ ps = PsIdle
    /\ ms = MsIdle

\* no request of the limiter's universe looks at a file
InitLimiter == InitApp({TRUE})

NextLimiter == log_requests_and_security(Requests, Instants) \/ Tick(Instants)

SpecLimiter == InitLimiter /\ [][NextLimiter]_vars

\* the application as it answers uploads, within two minutes
ApiInstants == {0, 60}

InitApi == InitApp(BOOLEAN)

NextApi == log_requests_and_security(Uploads, ApiInstants) \/ Tick(ApiInstants)

SpecApi == InitApi /\ [][NextApi]_vars

-----------------------------------------------------------------------------
(* Claims about the rate limiter (SpecLimiter) *)

\* the requests of client_ip that passed the limiter with a time stamp in
\* [from, from + length)
PassedWithin(client_ip, from, length) ==
    {k \in DOMAIN app.log : /\ app.log[k].client_ip = client_ip
                            /\ app.log[k].is_allowed
                            /\ from <= app.log[k].at
                            /\ app.log[k].at < from + length}

\* C19: of the requests of one client IP, at most requests_per_minute pass
\* the limiter within any 60 seconds and at most requests_per_hour within
\* any 3600 seconds; a request that does not pass is answered with 429 and
\* reaches no endpoint handler; a request changes the lists of its own client
\* IP only.
C19_RateLimits ==
    /\ [](\A k \in DOMAIN app.log :
            /\ Cardinality(PassedWithin(app.log[k].client_ip, app.log[k].at, 60))
                 <= requests_per_minute
            /\ Cardinality(PassedWithin(app.log[k].client_ip, app.log[k].at, 3600))
                 <= requests_per_hour
            /\ ~app.log[k].is_allowed =>
                  app.log[k].status_code = 429 /\ ~app.log[k].reached_handler)
    /\ [][Len(app'.log) > Len(app.log) =>
            \A ip \in ClientIps \ {app'.log[Len(app'.log)].client_ip} :
               /\ app'.rate_limiter.minute_requests[ip]
                    = app.rate_limiter.minute_requests[ip]
               /\ app'.rate_limiter.hour_requests[ip]
                    = app.rate_limiter.hour_requests[ip]]_vars


\* the requests up to request k that the client of request k made less than
\* age seconds before request k was answered
MadeWithin(k, age) ==
    {j \in 1..k : /\ app.log[j].client_ip = app.log[k].client_ip
                  /\ app.log[k].answered_at - app.log[j].at < age}

\* C25: the answer to a GET /security/limits has minute_requests and
\* hour_requests equal to the number of requests its client made within the
\* last 60 and 3600 seconds, this one included, and rate_limit_status
\* "allowed" exactly when the middleware let the request through.
C25_LimitsReport ==
    \A k \in DOMAIN app.log :
        (app.log[k].path = "/security/limits" /\ app.log[k].reached_handler) =>
            LET reported == app.log[k].body[1]
            IN /\ reported.limits.minute_requests = Cardinality(MadeWithin(k, 60))
               /\ reported.limits.hour_requests = Cardinality(MadeWithin(k, 3600))
               /\ reported.rate_limit_status = "allowed" <=> app.log[k].is_allowed

-----------------------------------------------------------------------------
(* Claims about POST /process_omr (SpecApi) *)

\* request k is an upload whose handler ran
Processed(k) ==
    /\ app.log[k].path = "/process_omr"
    /\ app.log[k].reached_handler
    /\ app.log[k].upload[1].num_questions > 0

\* the form is refused for its file name, its content type or its file
Refused(form) ==
    \/ form.filename \in {"", "sheet.exe", "../sheet.png"}
    \/ form.content_type = "application/pdf"
    \/ form.file.size > MaxBodySize
    \/ form.file.file_type = "application/pdf"
    \/ ~form.file.verifies

\* process_omr_sheet raises OMRProcessingError on the photo of the form
PipelineRaises(form) ==
    \/ ~form.file.image.decodable
    \/ form.file.image.sheet = <<>>
    \/ Len(form.file.image.thresh) < form.num_questions * form.num_options

\* C21: POST /process_omr answers 400 whenever the file name is rejected,
\* the content type is not allowed or validate_image_file rejects the file,
\* and 422 whenever the pipeline raises OMRProcessingError; it answers 500
\* in no such case.
C21_ErrorStatus ==
    \A k \in DOMAIN app.log :
        Processed(k) =>
            LET form == app.log[k].upload[1]
            IN /\ Refused(form) => app.log[k].status_code = 400
               /\ (~Refused(form) /\ PipelineRaises(form)) =>
                     app.log[k].status_code = 422
               /\ app.log[k].status_code = 500 =>
                     ~Refused(form) /\ ~PipelineRaises(form)

\* C29: a POST /process_omr that succeeds adds exactly one entry to the
\* result store, returns the id of that entry and adds one to
\* files_processed; one that is refused by the rate limiter, fails
\* validation or whose pipeline run raises an error leaves the result store
\* and files_processed as they were.
C29_UploadEffects ==
    [][(/\ Len(app'.log) = Len(app.log) + 1
        /\ app'.log[Len(app'.log)].path = "/process_omr") =>
          LET answered == app'.log[Len(app'.log)]
              held == DOMAIN app.result_store.results
              held_after == DOMAIN app'.result_store.results
              files == app.performance_monitor.files_processed
              files_after == app'.performance_monitor.files_processed
          IN IF answered.status_code = 200
             THEN /\ held \subseteq held_after
                  /\ held_after \ held = {answered.body[1].result_id}
                  /\ \A id \in held : app'.result_store.results[id]
                                        = app.result_store.results[id]
                  /\ files_after = files + 1
             ELSE /\ app'.result_store.results = app.result_store.results
                  /\ files_after = files
       ]_vars

\* an upload succeeded and was stored, and a later one was refused by the
\* rate limiter, failed validation or failed in the pipeline
C29_Witness ==
    \E k \in DOMAIN app.log : \E m \in DOMAIN app.log :
        /\ k < m
        /\ app.log[k].path = "/process_omr"
        /\ app.log[k].status_code = 200
        /\ app.log[k].body[1].result_id \in DOMAIN app.result_store.results
        /\ app.log[m].path = "/process_omr"
        /\ app.log[m].status_code \in {429, 500, 422}
        /\ Cardinality(DOMAIN app.result_store.results) = 1
        /\ app.performance_monitor.files_processed = 1

====
